---- MODULE Spec2Model ----
(***************************************************************************)
(* Attack Graph and Remediation Engine of cloud_attack_analysis:           *)
(* AttackEngine (attack_engine.py) and FixEngine (fix_engine.py).          *)
(*                                                                         *)
(* Node ids are numbered in the lexicographic order of their id strings:   *)
(* "Internet" is 0 (an upper-case initial sorts before every resource id   *)
(* "<type>.<name>"), resources are 1, 2, ...                               *)
(*                                                                         *)
(* A networkx DiGraph is a record [nodes, edges]: nodes in insertion       *)
(* order, edges in order of first insertion, one entry per ordered pair.   *)
(* The adjacency order of u (G[u], G.succ[u]) is the order of the edges    *)
(* leaving u, that of G.pred[v] the order of the edges entering v.         *)
(* Python objects live in `heap`; a variable holding a graph holds a       *)
(* reference (an index of heap), so that aliasing and copying differ.      *)
(***************************************************************************)
EXTENDS Integers, Sequences, FiniteSets, TLC

VARIABLES
  pc,              \* position of the analysis
  graph,           \* AttackEngine.graph: the resource graph
  heap,            \* the DiGraph objects; heap[1] is AttackEngine.attack_graph
  original_graph,  \* FixEngine.original_graph (reference)
  targets,         \* FixEngine.targets
  current_graph,   \* calculate_fix_order: current_graph (reference, 0 = unbound)
  remediations,    \* calculate_fix_order: remediations
  entry_graph,     \* history: the attack graph as calculate_fix_order was entered
  critical_path,   \* result of AttackEngine.find_critical_path
  first_run,       \* history: the results of the first of two analyses
  perm_policies,   \* _check_permission: policies
  perm_target,     \* _check_permission: target
  capability,      \* _check_permission: its outcome
  match_actions,   \* _check_action_match: actions
  match_targets,   \* _check_action_match: targets
  match_result,    \* _check_action_match: its outcome
  rules,           \* AttackEngine.rules: the rule results
  test_resource,   \* TestModels: the Resource r of a test
  test_result,     \* TestModels: the value of r.is_ai_service
  builder_resources \* GraphBuilder.resources

vars == << pc, graph, heap, original_graph, targets, current_graph,
           remediations, entry_graph, critical_path, first_run,
           perm_policies, perm_target, capability,
           match_actions, match_targets, match_result, rules,
           test_resource, test_result, builder_resources >>

\* the variables of the policy evaluator
policy_vars == << perm_policies, perm_target, capability,
                  match_actions, match_targets, match_result >>

\* the variables of the tests of models.Resource
models_vars == << test_resource, test_result >>

------------------------------------------------------------------------------
(* Bounds of the explored inputs *)

NumNodes == 3      \* resource nodes of the exhaustively enumerated graphs
MaxEdges == 3      \* edges of the exhaustively enumerated graphs
MaxTargets == 2    \* length of the target list
MaxChain == 12     \* longest single chain Internet -> 1 -> ... -> n
DagNodes == 4      \* resource nodes of the enumerated acyclic graphs
MaxPolicies == 2   \* length of the list of policy payloads
PipeNodes == 3     \* resources of the small resource graphs
PipeEdges == 3     \* relationship edges of the small resource graphs

------------------------------------------------------------------------------
(* Sequences *)

None == [none |-> TRUE]

Range(s) == { s[i] : i \in DOMAIN s }

InSeq(x, s) == \E i \in DOMAIN s : s[i] = x

Last(s) == s[Len(s)]

Reverse(s) == [i \in 1..Len(s) |-> s[Len(s) + 1 - i]]

\* the concatenation of the sequences ss[1], ..., ss[n]
RECURSIVE FlattenUpTo(_, _)
FlattenUpTo(ss, n) == IF n = 0 THEN <<>> ELSE FlattenUpTo(ss, n - 1) \o ss[n]

\* the distinct elements of s, in order of first occurrence (dict key order)
FirstOccurrences(s) ==
  LET first == { i \in DOMAIN s : \A j \in 1..(i - 1) : s[j] # s[i] }
  IN [k \in 1..Cardinality(first) |->
        s[CHOOSE i \in first : Cardinality({ j \in first : j <= i }) = k]]

\* all sequences of at most n distinct elements of S
RECURSIVE DistinctSeqs(_, _)
DistinctSeqs(S, n) ==
  IF n = 0 THEN { <<>> }
  ELSE LET shorter == DistinctSeqs(S, n - 1)
           grow == { p \in shorter \X S : Len(p[1]) = n - 1 /\ ~InSeq(p[2], p[1]) }
       IN shorter \cup { Append(p[1], p[2]) : p \in grow }

------------------------------------------------------------------------------
(* networkx.DiGraph *)

internet_node == 0

EmptyGraph == [nodes |-> <<>>, edges |-> <<>>]

HasNode(G, n) == InSeq(n, G.nodes)

HasEdge(G, u, v) == \E i \in DOMAIN G.edges : G.edges[i].u = u /\ G.edges[i].v = v

EdgePairs(G) == { <<G.edges[i].u, G.edges[i].v>> : i \in DOMAIN G.edges }

add_node(G, n) ==
  IF HasNode(G, n) THEN G ELSE [G EXCEPT !.nodes = Append(@, n)]

\* add_edge with its end points swapped
add_edge_reversed(G, u, v, method, risk) ==
  LET G1 == add_node(add_node(G, u), v)
      e  == [u |-> v, v |-> u, method |-> method, risk |-> risk]
  IN IF HasEdge(G1, v, u)
     THEN [G1 EXCEPT !.edges =
             [i \in DOMAIN @ |-> IF @[i].u = v /\ @[i].v = u THEN e ELSE @[i]]]
     ELSE [G1 EXCEPT !.edges = Append(@, e)]

\* add_edge(u, v, method=..., risk=...): creates missing end points, keeps the
\* position of an existing edge and overwrites its attributes
add_edge(G, u, v, method, risk) ==
  LET G1 == add_node(add_node(G, u), v)
      e  == [u |-> u, v |-> v, method |-> method, risk |-> risk]
  IN IF HasEdge(G1, u, v)
     THEN [G1 EXCEPT !.edges =
             [i \in DOMAIN @ |-> IF @[i].u = u /\ @[i].v = v THEN e ELSE @[i]]]
     ELSE [G1 EXCEPT !.edges = Append(@, e)]

\* remove_edge with its end points swapped
remove_edge_swapped(G, u, v) ==
  [G EXCEPT !.edges = SelectSeq(@, LAMBDA e : ~(e.u = v /\ e.v = u))]

remove_edge(G, u, v) ==
  [G EXCEPT !.edges = SelectSeq(@, LAMBDA e : ~(e.u = u /\ e.v = v))]

get_edge_data(G, u, v) ==
  LET i == CHOOSE i \in DOMAIN G.edges : G.edges[i].u = u /\ G.edges[i].v = v
  IN [method |-> G.edges[i].method, risk |-> G.edges[i].risk]

\* G[u]: successors of u in adjacency order
Successors(G, u) ==
  LET out == SelectSeq(G.edges, LAMBDA e : e.u = u)
  IN [i \in DOMAIN out |-> out[i].v]

\* G.pred[v]: predecessors of v in adjacency order
Predecessors(G, v) ==
  LET inc == SelectSeq(G.edges, LAMBDA e : e.v = v)
  IN [i \in DOMAIN inc |-> inc[i].u]

\* a second reference to the same graph object instead of a copy
GraphCopyAlias(h, r) == [heap |-> h, ref |-> r]

\* DiGraph.copy(): a new graph object with the same nodes, edges and attributes

GraphCopy(h, r) == [heap |-> Append(h, h[r]), ref |-> Len(h) + 1]

------------------------------------------------------------------------------
(* networkx.all_simple_paths(G, source, target, cutoff) *)

Cutoff == 10

\* The depth-first enumeration below the path `visited`, children taken in
\* adjacency order.  A path to the target is yielded while it has at most
\* `cutoff` edges; a node other than the target is entered only while the path
\* to it has fewer than `cutoff` edges.
RECURSIVE SimplePathsFrom(_, _, _, _), ChildPaths(_, _, _, _, _)
\* the paths found through the first i children of the last node of `visited`
ChildPaths(G, visited, target, cutoff, i) ==
  IF i = 0 THEN <<>>
  ELSE ChildPaths(G, visited, target, cutoff, i - 1) \o
       ( CHOOSE paths \in
           { IF InSeq(child, visited) THEN <<>>
             ELSE IF child = target THEN << Append(visited, child) >>
             ELSE IF Len(visited) < cutoff
                  THEN SimplePathsFrom(G, Append(visited, child), target, cutoff)
             ELSE <<>> : child \in { Successors(G, Last(visited))[i] } } : TRUE )

SimplePathsFrom(G, visited, target, cutoff) ==
  CHOOSE paths \in
    { ChildPaths(G, v, target, cutoff, Len(Successors(G, Last(v)))) :
        v \in { visited } } : TRUE

\* the enumeration with the cutoff taken as a number of nodes
all_simple_paths_short(G, source, target, cutoff) ==
  IF ~HasNode(G, source) THEN [raised |-> "NodeNotFound", paths |-> <<>>]
  ELSE IF ~HasNode(G, target) \/ source = target \/ cutoff < 1
       THEN [raised |-> "", paths |-> <<>>]
  ELSE [raised |-> "", paths |-> SimplePathsFrom(G, <<source>>, target, cutoff - 1)]

\* A target that is not a node of G yields nothing (networkx then searches for
\* the characters of the id, and no id is a single character); a missing
\* source raises NodeNotFound.
all_simple_paths(G, source, target, cutoff) ==
  IF ~HasNode(G, source) THEN [raised |-> "NodeNotFound", paths |-> <<>>]
  ELSE IF ~HasNode(G, target) \/ source = target \/ cutoff < 1
       THEN [raised |-> "", paths |-> <<>>]
  ELSE [raised |-> "", paths |-> SimplePathsFrom(G, <<source>>, target, cutoff)]

------------------------------------------------------------------------------
(* Python values                                                            *)
(* A value is a record of its type tag t and its content: n for an int or   *)
(* a bool (1, 0), s for a str, l for a list, d for a dict.  A str is a      *)
(* sequence of symbols (each symbol a piece of text that no operation of    *)
(* this program cuts apart), a list a sequence of values, a dict the        *)
(* sequence of its items [key, val] in insertion order.                     *)

Value(t, n, s, l, d) == [t |-> t, n |-> n, s |-> s, l |-> l, d |-> d]

PyNone == Value("NoneType", 0, <<>>, <<>>, <<>>)

PyBool(b) == Value("bool", IF b THEN 1 ELSE 0, <<>>, <<>>, <<>>)

PyInt(n) == Value("int", n, <<>>, <<>>, <<>>)

PyStr(s) == Value("str", 0, s, <<>>, <<>>)

PyList(l) == Value("list", 0, <<>>, l, <<>>)

PyDict(d) == Value("dict", 0, <<>>, <<>>, d)

\* one item of a dict display {key: val, ...}
Item(key, val) == [key |-> key, val |-> val]

isinstance(x, type) == x.t = type

\* bool(x): None, False, 0 and the empty str, list and dict are false
Truthy(x) ==
  CASE x.t = "NoneType" -> FALSE
    [] x.t \in { "bool", "int" } -> x.n # 0
    [] x.t = "str" -> x.s # <<>>
    [] x.t = "list" -> x.l # <<>>
    [] OTHER -> x.d # <<>>

\* d.get(key, default)
dict_get(d, key, default) ==
  IF \E i \in DOMAIN d.d : d.d[i].key = key
  THEN d.d[CHOOSE i \in DOMAIN d.d : d.d[i].key = key].val
  ELSE default

\* x in l, for a list l
list_contains(l, x) == \E i \in DOMAIN l : l[i] = x

\* the outcome of a call: the name of the exception it raised ("" for none)
\* and the value it returned
Returned(value) == [raised |-> "", value |-> value]

Raised(exception) == [raised |-> exception, value |-> PyNone]

------------------------------------------------------------------------------
(* str methods, on sequences of symbols *)

Whitespace == { " ", "\n", "\t" }

\* s.strip()
str_strip(s) ==
  LET keep == { i \in DOMAIN s : s[i] \notin Whitespace }
  IN IF keep = {} THEN <<>>
     ELSE SubSeq(s, CHOOSE i \in keep : \A j \in keep : i <= j,
                    CHOOSE i \in keep : \A j \in keep : j <= i)

\* s.startswith(prefix)
str_startswith(s, prefix) ==
  Len(prefix) <= Len(s) /\ SubSeq(s, 1, Len(prefix)) = prefix

\* s.endswith(suffix)
str_endswith(s, suffix) ==
  Len(suffix) <= Len(s) /\ SubSeq(s, Len(s) - Len(suffix) + 1, Len(s)) = suffix

\* sub in s
str_contains(s, sub) ==
  \E i \in 1..(Len(s) - Len(sub) + 1) : SubSeq(s, i, i + Len(sub) - 1) = sub

\* s.split(sep) for a separator of one symbol: the pieces between its
\* occurrences
str_split(s, sep) ==
  LET cuts == { i \in DOMAIN s : s[i] = sep }
      cut(k) == IF k = 0 THEN 0
                ELSE IF k > Cardinality(cuts) THEN Len(s) + 1
                ELSE CHOOSE i \in cuts : Cardinality({ j \in cuts : j <= i }) = k
  IN [k \in 1..(Cardinality(cuts) + 1) |-> SubSeq(s, cut(k - 1) + 1, cut(k) - 1)]

\* s.replace(old, ""): the occurrences of old are deleted from left to right
RECURSIVE str_remove(_, _)
str_remove(s, old) ==
  IF s = <<>> \/ old = <<>> THEN s
  ELSE IF str_startswith(s, old) THEN str_remove(SubSeq(s, Len(old) + 1, Len(s)), old)
  ELSE << s[1] >> \o str_remove(Tail(s), old)

\* s.rstrip(chars) for one char: every trailing occurrence is removed
str_rstrip(s, char) ==
  LET keep == { i \in DOMAIN s : s[i] # char }
  IN IF keep = {} THEN <<>>
     ELSE SubSeq(s, 1, CHOOSE i \in keep : \A j \in keep : j <= i)

\* s.upper() and s.lower(), symbol by symbol
UpperOf == [ s3 |-> "S3", iam |-> "IAM", bedrock |-> "BEDROCK",
             sagemaker |-> "SAGEMAKER", opensearch |-> "OPENSEARCH",
             instance |-> "INSTANCE", security |-> "SECURITY", subnet |-> "SUBNET" ]

str_upper(s) == [i \in DOMAIN s |-> IF s[i] \in DOMAIN UpperOf THEN UpperOf[s[i]] ELSE s[i]]

LowerOf == [ True |-> "true", False |-> "false", FALSE |-> "false", TRUE |-> "true" ]

str_lower(s) == [i \in DOMAIN s |-> IF s[i] \in DOMAIN LowerOf THEN LowerOf[s[i]] ELSE s[i]]

\* repr(x): a str in quotes, the items of a list between brackets, the items
\* of a dict between braces
RECURSIVE repr(_)
repr(x) ==
  CASE x.t = "str" -> << "'" >> \o x.s \o << "'" >>
    [] x.t = "NoneType" -> << "None" >>
    [] x.t = "bool" -> IF x.n = 1 THEN << "True" >> ELSE << "False" >>
    [] x.t = "int" -> << ToString(x.n) >>
    [] x.t = "list" ->
         << "[" >> \o
         FlattenUpTo([i \in DOMAIN x.l |->
                        (IF i = 1 THEN <<>> ELSE << ",", " " >>) \o repr(x.l[i])],
                     Len(x.l)) \o
         << "]" >>
    [] OTHER ->
         << "{" >> \o
         FlattenUpTo([i \in DOMAIN x.d |->
                        (IF i = 1 THEN <<>> ELSE << ",", " " >>) \o
                        << "'", x.d[i].key, "'", ":", " " >> \o repr(x.d[i].val)],
                     Len(x.d)) \o
         << "}" >>

\* str(x)
str(x) == IF x.t = "str" THEN x.s ELSE repr(x)

------------------------------------------------------------------------------
(* models.Resource *)

aws_instance == << "aws", "_", "instance" >>
aws_s3_bucket == << "aws", "_", "s3", "_", "bucket" >>
aws_iam_role == << "aws", "_", "iam", "_", "role" >>
aws_iam_policy == << "aws", "_", "iam", "_", "policy" >>
aws_iam_instance_profile == << "aws", "_", "iam", "_", "instance", "_", "profile" >>
aws_security_group == << "aws", "_", "security", "_", "group" >>
aws_subnet == << "aws", "_", "subnet" >>
aws_opensearch_domain == << "aws", "_", "opensearch", "_", "domain" >>
aws_sagemaker_endpoint == << "aws", "_", "sagemaker", "_", "endpoint" >>
aws_bedrock_agent == << "aws", "_", "bedrock", "_", "agent" >>
aws_bedrock_model_invocation_logging_configuration ==
  << "aws", "_", "bedrock", "_", "model", "_", "invocation", "_", "logging", "_",
     "configuration" >>

Resource(id, type, name, attributes) ==
  [id |-> id, type |-> type, name |-> name, attributes |-> attributes]

\* a property that looks at the service part of the type only
is_ai_service_prefix(res) ==
  Len(res.type) >= 3 /\ res.type[3] \in { "bedrock", "sagemaker" }

is_ai_service(res) ==
  res.type \in { aws_sagemaker_endpoint,
                 aws_bedrock_model_invocation_logging_configuration,
                 aws_bedrock_agent }

is_vector_store(res) ==
  str_contains(res.type, << "opensearch" >>) \/ str_contains(res.type, << "vector" >>)

------------------------------------------------------------------------------
(* AttackEngine: the policy evaluator *)

Star == PyStr(<< "*" >>)

Allow == PyStr(<< "Allow" >>)

\* the policy document {"Statement": statement}
Document(statement) == PyDict(<< Item("Statement", statement) >>)

\* the statements {"Action": a, "Resource": r} and
\* {"Effect": e, "Action": a, "Resource": r}
Statement(action, resource) ==
  PyDict(<< Item("Action", action), Item("Resource", resource) >>)

StatementOf(effect, action, resource) ==
  PyDict(<< Item("Effect", effect), Item("Action", action), Item("Resource", resource) >>)

\* json.loads, on the documents that occur as policy text: each document is
\* one symbol of the text, whitespace around it is skipped, and any other
\* text raises JSONDecodeError
JsonText ==
  "{}" :> PyDict(<<>>)
  @@ "[]" :> PyList(<<>>)
  @@ "[1]" :> PyList(<< PyInt(1) >>)
  @@ "1" :> PyInt(1)
  @@ "null" :> PyNone
  @@ "\"s3:*\"" :> PyStr(<< "s3", ":", "*" >>)
  @@ "{\"Statement\": null}" :> Document(PyNone)
  @@ "{\"Statement\": 1}" :> Document(PyInt(1))
  @@ "{\"Statement\": \"Allow\"}" :> Document(Allow)
  @@ "{\"Statement\": [{\"Effect\": \"Allow\", \"Action\": \"*\", \"Resource\": \"*\"}]}" :>
       Document(PyList(<< StatementOf(Allow, Star, Star) >>))
  @@ "{\"Statement\": {\"Action\": \"s3:*\", \"Resource\": \"*\"}}" :>
       Document(Statement(PyStr(<< "s3", ":", "*" >>), Star))
  @@ "{\"Statement\": [{\"Action\": [1], \"Resource\": \"*\"}]}" :>
       Document(PyList(<< Statement(PyList(<< PyInt(1) >>), Star) >>))
  @@ "{\"Statement\": [{\"Action\": [null, \"s3:GetObject\"], \"Resource\": [1]}]}" :>
       Document(PyList(<< Statement(
          PyList(<< PyNone, PyStr(<< "s3", ":", "Get", "Object" >>) >>),
          PyList(<< PyInt(1) >>)) >>))

json_loads(s) ==
  LET body == str_strip(s)
  IN IF Len(body) = 1 /\ body[1] \in DOMAIN JsonText
     THEN Returned(JsonText[body[1]])
     ELSE Raised("JSONDecodeError")

\* lines 214-218: the text handed to json.loads
CleanText(pol_ref) ==
  CHOOSE text \in
    { IF str_startswith(clean, << "<<", "EOF" >>)
      THEN str_remove(str_split(clean, "EOF")[1], << "<<", "EOF" >>)
      ELSE IF str_startswith(clean, << "<<", "-", "EOF" >>)
      THEN str_remove(str_split(clean, "EOF")[1], << "<<", "-", "EOF" >>)
      ELSE clean : clean \in { str_strip(pol_ref.s) } } : TRUE

\* AttackEngine._normalize_policy
_normalize_policy(pol_ref) ==
  IF isinstance(pol_ref, "dict") THEN pol_ref
  ELSE IF isinstance(pol_ref, "str")
  THEN CHOOSE out \in
         { IF doc.raised = "JSONDecodeError" THEN PyDict(<<>>) ELSE doc.value :
             doc \in { json_loads(CleanText(pol_ref)) } } : TRUE
  ELSE PyDict(<<>>)

\* AttackEngine._to_list
_to_list(val) ==
  IF isinstance(val, "list") THEN val.l
  ELSE IF isinstance(val, "str") THEN << val >>
  ELSE <<>>

\* AttackEngine._check_action_match: the loop stops at the first action that
\* is one of the targets, that matches one as a wildcard, or that has no
\* endswith (an action that is not a str)
_check_action_match(actions, action_targets) ==
  LET hit(i)  == list_contains(action_targets, actions[i])
      bad(i)  == ~hit(i) /\ ~isinstance(actions[i], "str")
      wild(i) == /\ ~hit(i)
                 /\ isinstance(actions[i], "str")
                 /\ str_endswith(actions[i].s, << "*" >>)
                 /\ \E k \in DOMAIN action_targets :
                      str_startswith(action_targets[k].s, str_rstrip(actions[i].s, "*"))
      stops   == { i \in DOMAIN actions : hit(i) \/ bad(i) \/ wild(i) }
  IN IF stops = {} THEN Returned(PyBool(FALSE))
     ELSE LET i == CHOOSE i \in stops : \A j \in stops : i <= j
          IN IF bad(i) THEN Raised("AttributeError") ELSE Returned(PyBool(TRUE))

S3Actions ==
  << PyStr(<< "s3", ":", "Get", "Object" >>), PyStr(<< "s3", ":", "Put", "Object" >>),
     PyStr(<< "s3", ":", "*" >>) >>

AgentActions == << PyStr(<< "bedrock", ":", "Invoke", "Agent" >>) >>

ModelActions ==
  << PyStr(<< "bedrock", ":", "Invoke", "Model" >>),
     PyStr(<< "sagemaker", ":", "Invoke", "Endpoint" >>) >>

\* "Check AI" (lines 199-203)
CheckAI(actions, target_) ==
  IF ~is_ai_service(target_) THEN Returned(PyNone)
  ELSE CHOOSE out \in
         { IF agent.raised # "" THEN agent
           ELSE IF agent.value.n = 1 THEN Returned(PyStr(<< "Agent Invocation" >>))
           ELSE CHOOSE granted \in
                  { IF model.raised # "" THEN model
                    ELSE IF model.value.n = 1
                    THEN Returned(PyStr(<< "Model Invocation" >>))
                    ELSE Returned(PyNone) :
                      model \in { _check_action_match(actions, ModelActions) } } : TRUE :
             agent \in { _check_action_match(actions, AgentActions) } } : TRUE

\* "Check Specific S3" (lines 193-196)
CheckS3(actions, resources, target_) ==
  IF target_.type # aws_s3_bucket THEN Returned(PyNone)
  ELSE CHOOSE out \in
         { IF match.raised # "" THEN match
           ELSE IF /\ match.value.n = 1
                   /\ \/ list_contains(resources, Star)
                      \/ str_contains(str(PyList(resources)), target_.name)
           THEN Returned(PyStr(<< "S3 Data Access" >>))
           ELSE Returned(PyNone) :
             match \in { _check_action_match(actions, S3Actions) } } : TRUE

\* "Check Admin" and "Check Service Wildcard" (lines 184-190)
CheckWildcards(actions, resources, target_service) ==
  IF list_contains(actions, Star) /\ list_contains(resources, Star)
  THEN Returned(PyStr(<< "Full Admin Access" >>))
  ELSE IF /\ list_contains(actions, PyStr(target_service \o << ":", "*" >>))
          /\ list_contains(resources, Star)
  THEN Returned(PyStr(<< "Full " >> \o str_upper(target_service) \o << " Access" >>))
  ELSE Returned(PyNone)

Continues(outcome) == outcome.raised = "" /\ outcome.value = PyNone

\* the checks of one Allow statement, in their order (lines 180-203)
CheckActions(actions, resources, target_, target_service) ==
  CHOOSE out \in
    { IF ~Continues(wild) THEN wild
      ELSE CHOOSE granted \in
             { IF ~Continues(s3) THEN s3 ELSE CheckAI(actions, target_) :
                 s3 \in { CheckS3(actions, resources, target_) } } : TRUE :
        wild \in { CheckWildcards(actions, resources, target_service) } } : TRUE

\* the body of the loop over the statements (lines 167-203): the capability
\* the statement grants, None when it grants none
CheckStatement(stmt, target_, target_service) ==
  IF ~isinstance(stmt, "dict") THEN Returned(PyNone)
  ELSE IF dict_get(stmt, "Effect", Allow) # Allow THEN Returned(PyNone)
  ELSE CheckActions(_to_list(dict_get(stmt, "Action", PyNone)),
                    _to_list(dict_get(stmt, "Resource", PyNone)),
                    target_, target_service)

\* for stmt in statements, from the j-th on: the first capability or exception
RECURSIVE CheckStatements(_, _, _, _)
CheckStatements(statements, target_, target_service, j) ==
  IF j > Len(statements) THEN Returned(PyNone)
  ELSE CHOOSE out \in
         { IF ~Continues(r) THEN r
           ELSE CheckStatements(statements, target_, target_service, j + 1) :
             r \in { CheckStatement(statements[j], target_, target_service) } } : TRUE

\* the items a for loop takes from x (a str yields its pieces, each a str)
IterItems(x) ==
  IF isinstance(x, "str") THEN [i \in DOMAIN x.s |-> PyStr(<< x.s[i] >>)] ELSE x.l

\* lines 163-166: the statements of a policy document
StatementsOf(policy_doc, target_, target_service) ==
  CHOOSE out \in
    { IF isinstance(found, "dict")
      THEN CheckStatements(<< found >>, target_, target_service, 1)
      ELSE IF found.t \in { "NoneType", "int", "bool" } THEN Raised("TypeError")
      ELSE CheckStatements(IterItems(found), target_, target_service, 1) :
        found \in { dict_get(policy_doc, "Statement", PyList(<<>>)) } } : TRUE

\* the body of the loop over the policies (lines 160-203)
CheckPolicy(pol, target_, target_service) ==
  CHOOSE out \in
    { IF ~Truthy(policy_doc) THEN Returned(PyNone)
      ELSE IF ~isinstance(policy_doc, "dict") THEN Raised("AttributeError")
      ELSE StatementsOf(policy_doc, target_, target_service) :
        policy_doc \in { _normalize_policy(pol) } } : TRUE

\* for pol in policies, from the i-th on
RECURSIVE CheckPolicies(_, _, _, _)
CheckPolicies(policies, target_, target_service, i) ==
  IF i > Len(policies) THEN Returned(PyNone)
  ELSE CHOOSE out \in
         { IF ~Continues(r) THEN r
           ELSE CheckPolicies(policies, target_, target_service, i + 1) :
             r \in { CheckPolicy(policies[i], target_, target_service) } } : TRUE

\* AttackEngine._check_permission
_check_permission(policies, target_) ==
  CHOOSE out \in
    { IF Len(parts) < 2 THEN Raised("IndexError")
      ELSE CheckPolicies(policies, target_, parts[2], 1) :
        parts \in { str_split(target_.type, "_") } } : TRUE

------------------------------------------------------------------------------
(* The resource graph: a DiGraph whose nodes may carry a Resource and whose *)
(* edges carry a relationship.  `resource` maps the nodes that carry one.   *)

EmptyResourceGraph == [nodes |-> <<>>, edges |-> <<>>, resource |-> <<>>]

HasResource(RG, n) == n \in DOMAIN RG.resource

\* G.nodes(data=True), restricted to the nodes whose data hold a resource
ResourceNodeSeq(RG) == SelectSeq(RG.nodes, LAMBDA n : HasResource(RG, n))

\* G.edges(data=True): node by node, each node's edges in adjacency order
EdgesInOrder(RG) ==
  FlattenUpTo([i \in DOMAIN RG.nodes |->
                 SelectSeq(RG.edges, LAMBDA e : e.u = RG.nodes[i])],
              Len(RG.nodes))

\* the successors of u over edges of one relationship, in adjacency order
RelatedSuccessors(RG, u, relationship) ==
  LET out == SelectSeq(RG.edges, LAMBDA e : e.u = u /\ e.relationship = relationship)
  IN [i \in DOMAIN out |-> out[i].v]

------------------------------------------------------------------------------
(* AttackEngine: exposure checks *)

AnyCidr == PyStr(<< "0.0.0.0/0" >>)

\* AttackEngine._check_cidrs
_check_cidrs(cidrs) ==
  /\ Truthy(cidrs)
  /\ isinstance(cidrs, "list")
  /\ \E i \in DOMAIN cidrs.l :
       IF isinstance(cidrs.l[i], "list")
       THEN list_contains(cidrs.l[i].l, AnyCidr)
       ELSE cidrs.l[i] = AnyCidr

\* a check that reads the rules of the ingress list itself only
_is_sg_public_flat(res) ==
  LET found     == dict_get(res.attributes, "ingress", PyList(<<>>))
      ingresses == IF isinstance(found, "list") THEN found.l ELSE << found >>
  IN \E i \in DOMAIN ingresses :
       /\ isinstance(ingresses[i], "dict")
       /\ _check_cidrs(dict_get(ingresses[i], "cidr_blocks", PyList(<<>>)))

\* AttackEngine._is_sg_public
_is_sg_public(res) ==
  LET found     == dict_get(res.attributes, "ingress", PyList(<<>>))
      ingresses == IF isinstance(found, "list") THEN found.l ELSE << found >>
      open(rule) == /\ isinstance(rule, "dict")
                    /\ _check_cidrs(dict_get(rule, "cidr_blocks", PyList(<<>>)))
  IN \E i \in DOMAIN ingresses :
       IF isinstance(ingresses[i], "list")
       THEN \E k \in DOMAIN ingresses[i].l : open(ingresses[i].l[k])
       ELSE open(ingresses[i])

\* an exposure check that looks at the security groups only
_is_instance_exposed_by_group(RG, res) ==
  /\ InSeq(res.id, RG.nodes)
  /\ \E i \in DOMAIN RelatedSuccessors(RG, res.id, "protected_by") :
       LET successor == RelatedSuccessors(RG, res.id, "protected_by")[i]
       IN HasResource(RG, successor) /\ _is_sg_public(RG.resource[successor])

\* AttackEngine._is_instance_publicly_exposed
_is_instance_publicly_exposed(RG, res) ==
  /\ InSeq(res.id, RG.nodes)
  /\ ~ \E i \in DOMAIN RelatedSuccessors(RG, res.id, "located_in") :
         LET successor == RelatedSuccessors(RG, res.id, "located_in")[i]
         IN /\ HasResource(RG, successor)
            /\ str_lower(str(dict_get(RG.resource[successor].attributes,
                                      "map_public_ip_on_launch", PyBool(TRUE))))
                 = << "false" >>
  /\ \E i \in DOMAIN RelatedSuccessors(RG, res.id, "protected_by") :
       LET successor == RelatedSuccessors(RG, res.id, "protected_by")[i]
       IN HasResource(RG, successor) /\ _is_sg_public(RG.resource[successor])

\* a check that knows the acl public-read only
_is_bucket_public_read(res) ==
  LET found == dict_get(res.attributes, "acl", PyStr(<<>>))
      acl   == IF isinstance(found, "list") /\ Len(found.l) > 0 THEN found.l[1] ELSE found
  IN acl \in { PyStr(<< "public-read" >>) }

\* AttackEngine._is_bucket_public
_is_bucket_public(res) ==
  LET found == dict_get(res.attributes, "acl", PyStr(<<>>))
      acl   == IF isinstance(found, "list") /\ Len(found.l) > 0 THEN found.l[1] ELSE found
  IN acl \in { PyStr(<< "public-read" >>), PyStr(<< "public-read-write" >>) }

\* AttackEngine._is_vector_store_exposed
_is_vector_store_exposed(res) == TRUE

\* AttackEngine._get_attached_policies
_get_attached_policies(RG, role_id) ==
  IF ~InSeq(role_id, RG.nodes) THEN <<>>
  ELSE LET attached == SelectSeq(RelatedSuccessors(RG, role_id, "has_policy"),
                         LAMBDA successor :
                           /\ HasResource(RG, successor)
                           /\ Truthy(dict_get(RG.resource[successor].attributes,
                                              "policy", PyNone)))
       IN [i \in DOMAIN attached |->
             dict_get(RG.resource[attached[i]].attributes, "policy", PyNone)]

------------------------------------------------------------------------------
(* AttackEngine._build_attack_overlay *)

\* Phase 1, the body of the loop for one node that carries a resource
IngressOf(RG, AG, node) ==
  LET res == RG.resource[node]
      G1  == IF res.type = aws_instance /\ _is_instance_publicly_exposed(RG, res)
             THEN add_edge(AG, internet_node, node, "Network Reachability",
                           << "Exploit Public Service (SSRF/RCE)" >>)
             ELSE AG
      G2  == IF res.type = aws_s3_bucket /\ _is_bucket_public(res)
             THEN add_edge(G1, internet_node, node, "Public ACL/Policy",
                           << "Data Leakage" >>)
             ELSE G1
  IN IF is_vector_store(res) /\ _is_vector_store_exposed(res)
     THEN add_edge(G2, internet_node, node, "Public Endpoint",
                   << "Knowledge Base Theft" >>)
     ELSE G2

\* Phase 1 over the first i nodes
RECURSIVE Ingress(_, _, _)
Ingress(RG, AG, i) ==
  IF i = 0 THEN AG
  ELSE CHOOSE G \in { IngressOf(RG, before, ResourceNodeSeq(RG)[i]) :
                        before \in { Ingress(RG, AG, i - 1) } } : TRUE

\* a Phase 2 that does not follow linked_role
IdentityOf_no_link(AG, e) ==
  LET G1 == IF e.relationship = "assumes_role"
            THEN add_edge(AG, e.u, e.v, "IMDS/Credential Access", << "Lateral Movement" >>)
            ELSE AG
  IN IF e.relationship = "uses_identity"
     THEN add_edge(G1, e.u, e.v, "Prompt Injection / Tool Abuse",
                   << "Indirect Privilege Escalation" >>)
     ELSE G1

\* Phase 2, the body of the loop for one edge
IdentityOf(AG, e) ==
  LET G1 == IF e.relationship = "assumes_role"
            THEN add_edge(AG, e.u, e.v, "IMDS/Credential Access", << "Lateral Movement" >>)
            ELSE AG
      G2 == IF e.relationship = "uses_identity"
            THEN add_edge(G1, e.u, e.v, "Prompt Injection / Tool Abuse",
                          << "Indirect Privilege Escalation" >>)
            ELSE G1
  IN IF e.relationship = "linked_role"
     THEN add_edge(G2, e.u, e.v, "Identity Link", << "Lateral Movement" >>)
     ELSE G2

\* a Phase 4 that follows every relationship
DataFlowOf_any(AG, e) ==
  add_edge(AG, e.u, e.v, "Data Flow", << "Log Poisoning / Indirect Write" >>)

\* Phase 4, the body of the loop for one edge
DataFlowOf(AG, e) ==
  IF e.relationship = "logs_to"
  THEN add_edge(AG, e.u, e.v, "Data Flow", << "Log Poisoning / Indirect Write" >>)
  ELSE AG

\* Phases 2 and 4 over the first i edges
RECURSIVE Identity(_, _, _), DataFlow(_, _, _)
Identity(es, AG, i) ==
  IF i = 0 THEN AG
  ELSE CHOOSE G \in { IdentityOf(before, es[i]) :
                        before \in { Identity(es, AG, i - 1) } } : TRUE

DataFlow(es, AG, i) ==
  IF i = 0 THEN AG
  ELSE CHOOSE G \in { DataFlowOf(before, es[i]) :
                        before \in { DataFlow(es, AG, i - 1) } } : TRUE

\* Phase 3: the pairs (role, target) in the order of the two loops
PermissionPairs(RG) ==
  LET carriers == ResourceNodeSeq(RG)
      roles    == SelectSeq(carriers, LAMBDA n : RG.resource[n].type = aws_iam_role)
  IN FlattenUpTo([r \in DOMAIN roles |->
                    LET others == SelectSeq(carriers, LAMBDA n : n # roles[r])
                    IN [k \in DOMAIN others |-> << roles[r], others[k] >>]],
                 Len(roles))

\* Phase 3, the body of the inner loop for one pair; an exception of the
\* policy evaluator ends the construction
PermissionOf(RG, built, pair) ==
  IF built.raised # "" THEN built
  ELSE CHOOSE out \in
         { IF granted.raised # "" THEN [raised |-> granted.raised, graph |-> built.graph]
           ELSE IF Truthy(granted.value)
           THEN [raised |-> "",
                 graph  |-> add_edge(built.graph, pair[1], pair[2],
                                     "IAM Permission allow", granted.value.s)]
           ELSE built :
             granted \in { _check_permission(_get_attached_policies(RG, pair[1]),
                                             RG.resource[pair[2]]) } } : TRUE

RECURSIVE Permissions(_, _, _, _)
Permissions(RG, pairs, AG, i) ==
  IF i = 0 THEN [raised |-> "", graph |-> AG]
  ELSE CHOOSE built \in { PermissionOf(RG, before, pairs[i]) :
                            before \in { Permissions(RG, pairs, AG, i - 1) } } : TRUE

\* the attack graph after the four phases, or the exception that ended them
_build_attack_overlay(RG) ==
  LET es == EdgesInOrder(RG)
      pairs == PermissionPairs(RG)
  IN CHOOSE out \in
       { IF G3.raised # "" THEN G3
         ELSE [raised |-> "", graph |-> DataFlow(es, G3.graph, Len(es))] :
           G3 \in { Permissions(RG, pairs,
                       Identity(es,
                         Ingress(RG, add_node(EmptyGraph, internet_node),
                                 Len(ResourceNodeSeq(RG))),
                         Len(es)),
                       Len(pairs)) } } : TRUE

------------------------------------------------------------------------------
(* networkx.shortest_path(G, source, target): without weight it is the      *)
(* bidirectional breadth-first search.  pred and succ are the two search    *)
(* trees (node :> parent, None for a root), w the node where they met.      *)

NoParent == -1

\* one step of the forward level: the edge from v to w
ForwardVisit(G, search, v, w) ==
  IF search.w # NoParent THEN search
  ELSE LET seen == IF w \in DOMAIN search.pred THEN search
                   ELSE [search EXCEPT !.pred = @ @@ (w :> v),
                                       !.forward_fringe = Append(@, w)]
       IN IF w \in DOMAIN seen.succ THEN [seen EXCEPT !.w = w] ELSE seen

\* one step of the reverse level: the edge from w to v
ReverseVisit(G, search, v, w) ==
  IF search.w # NoParent THEN search
  ELSE LET seen == IF w \in DOMAIN search.succ THEN search
                   ELSE [search EXCEPT !.succ = @ @@ (w :> v),
                                       !.reverse_fringe = Append(@, w)]
       IN IF w \in DOMAIN seen.pred THEN [seen EXCEPT !.w = w] ELSE seen

\* the pairs (v, neighbour of v) of a level, in the order of the two loops
LevelPairs(G, this_level, forward) ==
  FlattenUpTo([i \in DOMAIN this_level |->
                 LET nbrs == IF forward THEN Successors(G, this_level[i])
                             ELSE Predecessors(G, this_level[i])
                 IN [k \in DOMAIN nbrs |-> << this_level[i], nbrs[k] >>]],
              Len(this_level))

\* a level, visited up to its i-th pair
RECURSIVE Level(_, _, _, _, _)
Level(G, search, pairs, forward, i) ==
  IF i = 0 THEN search
  ELSE CHOOSE after \in
         { IF forward THEN ForwardVisit(G, before, pairs[i][1], pairs[i][2])
           ELSE ReverseVisit(G, before, pairs[i][1], pairs[i][2]) :
             before \in { Level(G, search, pairs, forward, i - 1) } } : TRUE

\* _bidirectional_pred_succ: the while loop
RECURSIVE BidirectionalSearch(_, _)
BidirectionalSearch(G, search) ==
  IF search.w # NoParent THEN search
  ELSE IF search.forward_fringe = <<>> \/ search.reverse_fringe = <<>> THEN search
  ELSE IF Len(search.forward_fringe) <= Len(search.reverse_fringe)
  THEN LET pairs == LevelPairs(G, search.forward_fringe, TRUE)
       IN BidirectionalSearch(G,
            Level(G, [search EXCEPT !.forward_fringe = <<>>], pairs, TRUE, Len(pairs)))
  ELSE LET pairs == LevelPairs(G, search.reverse_fringe, FALSE)
       IN BidirectionalSearch(G,
            Level(G, [search EXCEPT !.reverse_fringe = <<>>], pairs, FALSE, Len(pairs)))

\* the walk from n along a search tree to its root
RECURSIVE TreeWalk(_, _)
TreeWalk(tree, n) ==
  IF n = NoParent THEN <<>> ELSE << n >> \o TreeWalk(tree, tree[n])

bidirectional_shortest_path(G, source, target) ==
  IF ~HasNode(G, source) \/ ~HasNode(G, target)
  THEN [raised |-> "NodeNotFound", path |-> <<>>]
  ELSE IF source = target THEN [raised |-> "", path |-> << source >>]
  ELSE CHOOSE out \in
         { IF search.w = NoParent
           THEN [raised |-> "NetworkXNoPath", path |-> <<>>]
           ELSE [raised |-> "",
                 path |-> Reverse(TreeWalk(search.pred, search.w)) \o
                          Tail(TreeWalk(search.succ, search.w))] :
             search \in { BidirectionalSearch(G,
                            [pred |-> (source :> NoParent), succ |-> (target :> NoParent),
                             forward_fringe |-> << source >>,
                             reverse_fringe |-> << target >>, w |-> NoParent]) } } : TRUE

\* the first simple path of the depth-first enumeration instead of a shortest
first_simple_path(G, source, target) ==
  IF ~HasNode(G, source) \/ ~HasNode(G, target)
  THEN [raised |-> "NodeNotFound", path |-> <<>>]
  ELSE IF source = target THEN [raised |-> "", path |-> << source >>]
  ELSE LET paths == SimplePathsFrom(G, << source >>, target, Len(G.nodes))
       IN IF paths = <<>> THEN [raised |-> "NetworkXNoPath", path |-> <<>>]
          ELSE [raised |-> "", path |-> paths[1]]

shortest_path(G, source, target) == bidirectional_shortest_path(G, source, target)

------------------------------------------------------------------------------
(* AttackEngine.find_critical_path *)

AttackNode(id, type) == [id |-> id, type |-> type]

AttackPath(steps, risk_score, severity) ==
  [steps |-> steps, risk_score |-> risk_score, severity |-> severity]

\* lines 240-248: the targets of the logs_to edges, then the buckets not yet
\* among them
CriticalTargets(RG) ==
  LET logged  == SelectSeq(EdgesInOrder(RG), LAMBDA e : e.relationship = "logs_to")
      log_targets == [i \in DOMAIN logged |-> logged[i].v]
      buckets == SelectSeq(ResourceNodeSeq(RG),
                   LAMBDA n : RG.resource[n].type = aws_s3_bucket /\ ~InSeq(n, log_targets))
  IN log_targets \o buckets

\* lines 262-273: the AttackPath of a path of node ids
PathOf(RG, path_ids) ==
  LET nodes == [i \in DOMAIN path_ids |->
                  AttackNode(path_ids[i],
                             IF HasResource(RG, path_ids[i])
                             THEN RG.resource[path_ids[i]].type
                             ELSE << "External" >>)]
  IN AttackPath(nodes, Len(nodes) * 20, "Critical")

\* the body of the loop over the targets (lines 256-281)
ShorterOf(RG, AG, shortest, target_) ==
  IF ~HasNode(AG, target_) THEN shortest
  ELSE CHOOSE out \in
         { IF found.raised \in { "NetworkXNoPath", "NodeNotFound" } THEN shortest
           ELSE IF shortest = None \/ Len(found.path) < Len(shortest.steps)
           THEN PathOf(RG, found.path)
           ELSE shortest :
             found \in { shortest_path(AG, internet_node, target_) } } : TRUE

RECURSIVE ShortestOver(_, _, _, _)
ShortestOver(RG, AG, tgts, i) ==
  IF i = 0 THEN None
  ELSE CHOOSE path \in { ShorterOf(RG, AG, before, tgts[i]) :
                           before \in { ShortestOver(RG, AG, tgts, i - 1) } } : TRUE

find_critical_path(RG, AG) ==
  LET tgts == CriticalTargets(RG)
  IN IF tgts = <<>> THEN None ELSE ShortestOver(RG, AG, tgts, Len(tgts))

------------------------------------------------------------------------------
(* FixEngine *)

\* FixEngine._find_all_paths: the paths of every target, in target order; a
\* NodeNotFound or NetworkXNoPath of one target is skipped
_find_all_paths(G, tgts) ==
  FlattenUpTo([i \in DOMAIN tgts |->
                 all_simple_paths(G, internet_node, tgts[i], Cutoff).paths],
              Len(tgts))

\* steps 2 of the loop: edge_counts, a dict keyed by (u, v) in order of first
\* occurrence over the paths
PathEdgeSeq(path) == [i \in 1..(Len(path) - 1) |-> <<path[i], path[i + 1]>>]

EdgeOccurrences(all_paths) ==
  FlattenUpTo([i \in DOMAIN all_paths |-> PathEdgeSeq(all_paths[i])],
              Len(all_paths))

\* a count that gives every edge the number of all paths
edge_counts_total(all_paths) ==
  CHOOSE counts \in
    { [keys |-> FirstOccurrences(occ),
       get  |-> [e \in Range(occ) |-> Len(all_paths)]] :
        occ \in { EdgeOccurrences(all_paths) } } : TRUE

edge_counts(all_paths) ==
  CHOOSE counts \in
    { [keys |-> FirstOccurrences(occ),
       get  |-> [e \in Range(occ) |-> Cardinality({ i \in DOMAIN occ : occ[i] = e })]] :
        occ \in { EdgeOccurrences(all_paths) } } : TRUE

\* a selection that takes the first key of the dict
best_edge_first(counts) == counts.keys[1]

\* max(edge_counts, key=edge_counts.get): the first key with the largest count
best_edge_of(counts) ==
  LET k == counts.keys
      i == CHOOSE i \in DOMAIN k :
             /\ \A j \in DOMAIN k : counts.get[k[j]] <= counts.get[k[i]]
             /\ \A j \in 1..(i - 1) : counts.get[k[j]] < counts.get[k[i]]
  IN k[i]

\* FixEngine._get_fix_description: the template chosen by the method and the
\* node it names
_get_fix_description(method, source, target) ==
  CASE method = "Network Reachability" ->
         [text |-> "Restrict Security Group on {target} (Remove 0.0.0.0/0)", names |-> <<target>>]
    [] method = "Public ACL/Policy" ->
         [text |-> "Make S3 Bucket {target} Private (Block Public Access)", names |-> <<target>>]
    [] method = "IMDS/Credential Access" ->
         [text |-> "Enforce IMDSv2 on {source} to prevent credential theft", names |-> <<source>>]
    [] method = "IAM Permission allow" ->
         [text |-> "Scope down IAM Policy on {source} to deny access to {target}", names |-> <<source, target>>]
    [] method = "Prompt Injection / Tool Abuse" ->
         [text |-> "Implement Input Guardrails on Agent {source} or restrict Role {target}", names |-> <<source, target>>]
    [] method = "Data Flow" ->
         [text |-> "Encrypt Logs or Restrict Write Access from {source} to {target}", names |-> <<source, target>>]
    [] method = "Public Endpoint" ->
         [text |-> "Enable VPC Access Policy for Vector Store {target}", names |-> <<target>>]
    [] OTHER ->
         [text |-> "Break relationship between {source} and {target}", names |-> <<source, target>>]

\* Remediation(...) of step 4
Remediation(G, edge, count, k) ==
  LET edge_data == get_edge_data(G, edge[1], edge[2])
  IN [id           |-> <<"FIX-", k>>,
      description  |-> _get_fix_description(edge_data.method, edge[1], edge[2]),
      paths_blocked |-> count,
      edge_source  |-> edge[1],
      edge_target  |-> edge[2],
      risk_type    |-> edge_data.risk]

\* calculate_fix_order, lines 30-32: the working copy and the empty result
FixCopy ==
  /\ pc = "fix_init"
  /\ LET c == GraphCopy(heap, original_graph)
     IN /\ heap' = c.heap
        /\ current_graph' = c.ref
  /\ remediations' = <<>>
  /\ entry_graph' = heap[original_graph]
  /\ pc' = "fix_loop"
  /\ UNCHANGED << graph, original_graph, targets, critical_path, first_run,
                  policy_vars, rules, models_vars, builder_resources >>

\* one pass of the loop that selects and removes an edge (lines 36-83)
FixIteration ==
  /\ pc = "fix_loop"
  /\ \E all_paths \in { _find_all_paths(heap[current_graph], targets) } :
     \E counts \in { edge_counts(all_paths) } :
       /\ all_paths # <<>>
       /\ counts.keys # <<>>
       /\ \E best_edge \in { best_edge_of(counts) } :
          \E rem \in { Remediation(heap[current_graph], best_edge,
                                    counts.get[best_edge], Len(remediations) + 1) } :
            /\ remediations' = Append(remediations, rem)
            /\ heap' = [heap EXCEPT ![current_graph] =
                          remove_edge(@, best_edge[1], best_edge[2])]
  /\ UNCHANGED << pc, graph, original_graph, targets, current_graph,
                  entry_graph, critical_path, first_run, policy_vars, rules, models_vars, builder_resources >>

\* the pass that finds no path (or no edge) and returns (lines 36-39, 58-59, 85)
FixReturn ==
  /\ pc = "fix_loop"
  /\ \E all_paths \in { _find_all_paths(heap[current_graph], targets) } :
       all_paths = <<>> \/ edge_counts(all_paths).keys = <<>>
  /\ pc' = "fix_returned"
  /\ UNCHANGED << graph, heap, original_graph, targets, current_graph,
                  remediations, entry_graph, critical_path, first_run,
                  policy_vars, rules, models_vars, builder_resources >>

------------------------------------------------------------------------------
(* FixEngine on every small attack graph and target list *)

ResourceNodes == 1..NumNodes

\* the pairs <<u, v>> over 0..n in lexicographic order
PairSeq(n) ==
  [k \in 1..((n + 1) * (n + 1)) |-> << (k - 1) \div (n + 1), (k - 1) % (n + 1) >>]

\* the edges an attack graph can hold: Internet has no predecessor
PossibleEdgeSeq == SelectSeq(PairSeq(NumNodes), LAMBDA e : e[1] # e[2] /\ e[2] # 0)

\* the attack graph that holds Internet and the distinct edges es, added in
\* the order of es (nodes in order of first mention)
GraphOfEdges(es) ==
  [nodes |-> FirstOccurrences(
               [k \in 1..(2 * Len(es) + 1) |->
                  IF k = 1 THEN internet_node ELSE es[k \div 2][1 + (k % 2)]]),
   edges |-> [i \in DOMAIN es |->
                [u |-> es[i][1], v |-> es[i][2],
                 method |-> "IMDS/Credential Access", risk |-> << "Lateral Movement" >>]]]

\* every graph of at most MaxEdges edges on NumNodes resources, its edges
\* added in ascending and in descending order of the pairs
SmallEdgeSeqs ==
  LET sets == { S \in SUBSET Range(PossibleEdgeSeq) : Cardinality(S) <= MaxEdges }
      asc  == { SelectSeq(PossibleEdgeSeq, LAMBDA e : e \in S) : S \in sets }
  IN { IF r THEN Reverse(es) ELSE es : es \in asc, r \in BOOLEAN }

SmallGraphs == { GraphOfEdges(es) : es \in SmallEdgeSeqs }

ChainGraph(n) == GraphOfEdges([i \in 1..n |-> <<i - 1, i>>])

\* every acyclic graph on 0..DagNodes whose edges lead from a smaller to a
\* larger id, built in the order of the edge pairs
ForwardEdgeSeq == SelectSeq(PairSeq(DagNodes), LAMBDA e : e[1] < e[2])

DagGraph(S) == GraphOfEdges(SelectSeq(ForwardEdgeSeq, LAMBDA e : e \in S))

\* FixEngine(attack_graph, targets)
FixEngineInit(G, tgts) ==
  /\ heap = << G >>
  /\ targets = tgts
  /\ pc = "fix_init"
  /\ graph = EmptyGraph
  /\ original_graph = 1
  /\ current_graph = 0
  /\ remediations = <<>>
  /\ entry_graph = None
  /\ critical_path = None
  /\ first_run = None
  /\ perm_policies = <<>>
  /\ perm_target = None
  /\ capability = None
  /\ match_actions = <<>>
  /\ match_targets = <<>>
  /\ match_result = None
  /\ rules = <<>>
  /\ test_resource = None
  /\ test_result = None
  /\ builder_resources = <<>>

InitFix ==
  \/ \E G \in SmallGraphs, tgts \in DistinctSeqs(ResourceNodes, MaxTargets) :
       FixEngineInit(G, tgts)
  \/ \E n \in 1..MaxChain : FixEngineInit(ChainGraph(n), << n >>)
  \/ \E S \in SUBSET Range(ForwardEdgeSeq) : FixEngineInit(DagGraph(S), << DagNodes >>)

NextFix == FixCopy \/ FixIteration \/ FixReturn

SpecFix == InitFix /\ [][NextFix]_vars

FairSpecFix == SpecFix /\ WF_vars(NextFix)

------------------------------------------------------------------------------
(* _check_permission on every short list of policy payloads *)

\* a policy as Terraform gives it inside a heredoc
Heredoc(marker, text) == PyStr(marker \o << "\n", text, "\n", "EOF" >>)

PolicyPayloads ==
  { JsonText[text] : text \in DOMAIN JsonText }
  \cup { PyStr(<< text >>) : text \in DOMAIN JsonText }
  \cup { PyStr(<< " ", text, "\n" >>) : text \in { "[1]", "{}" } }
  \cup { Heredoc(marker, text) :
           marker \in { << "<<", "EOF" >>, << "<<", "-", "EOF" >> },
           text \in { "{\"Statement\": {\"Action\": \"s3:*\", \"Resource\": \"*\"}}" } }
  \cup { PyStr(<< "{", "oops" >>), PyStr(<<>>), PyBool(TRUE),
         Document(PyList(<< StatementOf(PyStr(<< "Deny" >>), Star, Star) >>)),
         Document(PyList(<< Statement(
            PyList(<< PyStr(<< "s3", ":", "Get", "*" >>) >>),
            PyStr(<< "arn:aws:s3:::", "data", "/", "*" >>)) >>)),
         Document(PyList(<< Statement(
            PyStr(<< "bedrock", ":", "Invoke", "Model" >>), Star) >>)) }

TargetResources ==
  { Resource(1, aws_s3_bucket, << "data" >>, PyDict(<<>>)),
    Resource(1, aws_s3_bucket, << "logs" >>, PyDict(<<>>)),
    Resource(1, aws_bedrock_agent, << "assistant" >>, PyDict(<<>>)),
    Resource(1, aws_iam_role, << "app" >>, PyDict(<<>>)),
    Resource(1, aws_instance, << "web" >>, PyDict(<<>>)),
    Resource(1, << "terraform" >>, << "state" >>, PyDict(<<>>)) }

\* all sequences of at most n elements of S
RECURSIVE SeqsUpTo(_, _)
SeqsUpTo(S, n) ==
  IF n = 0 THEN { <<>> }
  ELSE LET shorter == SeqsUpTo(S, n - 1)
       IN { <<>> } \cup { Append(p[1], p[2]) : p \in shorter \X S }

InitPolicy ==
  /\ pc = "check_permission"
  /\ perm_policies \in SeqsUpTo(PolicyPayloads, MaxPolicies)
  /\ perm_target \in TargetResources
  /\ capability = None
  /\ match_actions = <<>>
  /\ match_targets = <<>>
  /\ match_result = None
  /\ graph = EmptyGraph
  /\ heap = <<>>
  /\ original_graph = 0
  /\ targets = <<>>
  /\ current_graph = 0
  /\ remediations = <<>>
  /\ entry_graph = None
  /\ critical_path = None
  /\ first_run = None
  /\ rules = <<>>
  /\ test_resource = None
  /\ test_result = None
  /\ builder_resources = <<>>

\* capability = self._check_permission(policies, target_res)
CheckPermission ==
  /\ pc = "check_permission"
  /\ capability' = _check_permission(perm_policies, perm_target)
  /\ pc' = "checked"
  /\ UNCHANGED << graph, heap, original_graph, targets, current_graph,
                  remediations, entry_graph, critical_path, first_run,
                  perm_policies, perm_target, rules, models_vars, builder_resources,
                  match_actions, match_targets, match_result >>

NextPolicy == CheckPermission

SpecPolicy == InitPolicy /\ [][NextPolicy]_vars

------------------------------------------------------------------------------
(* _check_action_match on lists of action patterns and of target actions *)

ActionPatterns ==
  { << "s3", ":", "Get", "Object" >>, << "s3", ":", "Get", "*" >>, << "s3", ":", "*" >>,
    << "s3", ":", "*", "*" >>, << "s3", ":", "*", "Object" >>, << "*" >>, << "*", "*" >>,
    << "bedrock", ":", "*" >>, <<>> }

TargetActionLists ==
  { S3Actions, AgentActions, ModelActions, <<>>,
    << PyStr(<< "s3", ":", "Get", "Object" >>) >>,
    << PyStr(<< "s3", ":", "*", "Object" >>) >>,
    << PyStr(<< "*", "s3" >>) >>,
    << PyStr(<<>>) >> }

InitMatch ==
  /\ pc = "check_action_match"
  /\ match_actions \in SeqsUpTo({ PyStr(a) : a \in ActionPatterns }, 2)
  /\ match_targets \in TargetActionLists
  /\ match_result = None
  /\ perm_policies = <<>>
  /\ perm_target = None
  /\ capability = None
  /\ graph = EmptyGraph
  /\ heap = <<>>
  /\ original_graph = 0
  /\ targets = <<>>
  /\ current_graph = 0
  /\ remediations = <<>>
  /\ entry_graph = None
  /\ critical_path = None
  /\ first_run = None
  /\ rules = <<>>
  /\ test_resource = None
  /\ test_result = None
  /\ builder_resources = <<>>

\* self._check_action_match(actions, targets)
CheckActionMatch ==
  /\ pc = "check_action_match"
  /\ match_result' = _check_action_match(match_actions, match_targets)
  /\ pc' = "matched"
  /\ UNCHANGED << graph, heap, original_graph, targets, current_graph,
                  remediations, entry_graph, critical_path, first_run,
                  perm_policies, perm_target, capability, rules, models_vars, builder_resources,
                  match_actions, match_targets >>

NextMatch == CheckActionMatch

SpecMatch == InitMatch /\ [][NextMatch]_vars

------------------------------------------------------------------------------
(* TestModels: Resource(...) and its property is_ai_service *)

TestTypes ==
  { aws_sagemaker_endpoint, aws_bedrock_model_invocation_logging_configuration,
    aws_bedrock_agent, aws_s3_bucket, aws_instance, aws_opensearch_domain,
    aws_bedrock_agent \o << "_", "alias" >>,
    aws_sagemaker_endpoint \o << "_", "configuration" >>,
    << "aws", "_", "bedrock" >>,
    << "aws", "_", "bedrock", "_", "knowledge", "_", "base" >>,
    << "AWS", "_", "BEDROCK", "_", "AGENT" >>,
    << "terraform" >> }

TestAttributes ==
  { PyDict(<<>>),
    PyDict(<< Item("bucket", PyStr(<< "foo" >>)) >>),
    PyDict(<< Item("type", PyStr(aws_bedrock_agent)) >>) }

InitModels ==
  /\ pc = "test"
  /\ test_resource \in { Resource(id, type, name, attributes) :
                           id \in 1..2, type \in TestTypes,
                           name \in { << "test" >>, << "agent" >> },
                           attributes \in TestAttributes }
  /\ test_result = None
  /\ builder_resources = <<>>
  /\ graph = EmptyGraph
  /\ heap = <<>>
  /\ original_graph = 0
  /\ targets = <<>>
  /\ current_graph = 0
  /\ remediations = <<>>
  /\ entry_graph = None
  /\ critical_path = None
  /\ first_run = None
  /\ perm_policies = <<>>
  /\ perm_target = None
  /\ capability = None
  /\ match_actions = <<>>
  /\ match_targets = <<>>
  /\ match_result = None
  /\ rules = <<>>

\* r.is_ai_service
TestAiDetection ==
  /\ pc = "test"
  /\ test_result' = PyBool(is_ai_service(test_resource))
  /\ pc' = "tested"
  /\ UNCHANGED << graph, heap, original_graph, targets, current_graph,
                  remediations, entry_graph, critical_path, first_run,
                  policy_vars, rules, test_resource, builder_resources >>

NextModels == TestAiDetection

SpecModels == InitModels /\ [][NextModels]_vars

------------------------------------------------------------------------------
(* The analysis: AttackEngine(graph, rules), find_critical_path(), then     *)
(* FixEngine(attack_graph, targets) and calculate_fix_order()               *)

\* models.RuleResult
RuleResult(rule_id, resource_id, is_compliant, severity) ==
  [rule_id |-> rule_id, resource_id |-> resource_id,
   is_compliant |-> is_compliant, severity |-> severity]

\* results RulesEngine.run gives: none, a public bucket, an open security
\* group together with plaintext AI logging
RuleLists ==
  { <<>>,
    << RuleResult("STO-001", 3, FALSE, "Critical") >>,
    << RuleResult("NET-001", 1, FALSE, "High"), RuleResult("AI-001", 2, FALSE, "Medium") >> }

\* the findings of the first scan
InitialRuleLists == { rs \in RuleLists : Len(rs) = 1 }

\* an engine whose attack graph also takes an edge from the first finding
AttackEngine_findings(resource_graph, rule_results) ==
  CHOOSE out \in
    { IF built.raised # "" \/ rule_results = <<>> THEN built
      ELSE [raised |-> "",
            graph  |-> add_edge(built.graph, internet_node, rule_results[1].resource_id,
                                "Misconfiguration", << rule_results[1].rule_id >>)] :
        built \in { _build_attack_overlay(resource_graph) } } : TRUE

\* AttackEngine(resource_graph, rule_results): self.graph, self.rules, and the
\* attack graph that _build_attack_overlay builds (or the exception it raises)
AttackEngine(resource_graph, rule_results) == _build_attack_overlay(resource_graph)

\* AttackEngine.__init__: the overlay is built into a new graph; an exception
\* of the construction leaves no engine
Construct ==
  /\ pc = "construct"
  /\ \E built \in { AttackEngine(graph, rules) } :
       IF built.raised # ""
       THEN heap' = <<>> /\ pc' = "crashed"
       ELSE heap' = << built.graph >> /\ pc' = "find_critical_path"
  /\ UNCHANGED << graph, original_graph, targets, current_graph, remediations,
                  entry_graph, critical_path, first_run, policy_vars, rules, models_vars, builder_resources >>

\* critical_path = attack_engine.find_critical_path()
FindCriticalPath ==
  /\ pc = "find_critical_path"
  /\ critical_path' = find_critical_path(graph, heap[1])
  /\ pc' = "fix_engine"
  /\ UNCHANGED << graph, heap, original_graph, targets, current_graph,
                  remediations, entry_graph, first_run, policy_vars, rules, models_vars, builder_resources >>

\* the targets the front end hands to FixEngine: the buckets and the vector
\* stores, in the order of the resources
RemediationTargets(RG) ==
  SelectSeq(ResourceNodeSeq(RG),
            LAMBDA n : RG.resource[n].type = aws_s3_bucket \/ is_vector_store(RG.resource[n]))

\* fix_engine = FixEngine(attack_engine.attack_graph, targets)
NewFixEngine ==
  /\ pc = "fix_engine"
  /\ targets' = RemediationTargets(graph)
  /\ original_graph' = 1
  /\ pc' = "fix_init"
  /\ UNCHANGED << graph, heap, current_graph, remediations, entry_graph,
                  critical_path, first_run, policy_vars, rules, models_vars, builder_resources >>

\* the same nodes, resources and edges, inserted in another order
Reorderings(RG) ==
  { [RG EXCEPT !.nodes = Reverse(@)],
    [RG EXCEPT !.edges = Reverse(@)],
    [RG EXCEPT !.nodes = Reverse(@), !.edges = Reverse(@)] }

\* a second analysis, of an equivalent resource graph
Rerun ==
  /\ pc = "fix_returned"
  /\ first_run = None
  /\ first_run' = [attack_graph |-> heap[1], critical_path |-> critical_path,
                   remediations |-> remediations,
                   resource_graph |-> graph, rules |-> rules]
  /\ graph' \in Reorderings(graph)
  /\ heap' = <<>>
  /\ original_graph' = 0
  /\ targets' = <<>>
  /\ current_graph' = 0
  /\ remediations' = <<>>
  /\ entry_graph' = None
  /\ critical_path' = None
  /\ pc' = "construct"
  /\ UNCHANGED << policy_vars, rules, models_vars, builder_resources >>

\* a second analysis of the same resource graph, with other rule results
RerunRules ==
  /\ pc = "fix_returned"
  /\ first_run = None
  /\ first_run' = [attack_graph |-> heap[1], critical_path |-> critical_path,
                   remediations |-> remediations,
                   resource_graph |-> graph, rules |-> rules]
  /\ rules' \in RuleLists \ { rules }
  /\ heap' = <<>>
  /\ original_graph' = 0
  /\ targets' = <<>>
  /\ current_graph' = 0
  /\ remediations' = <<>>
  /\ entry_graph' = None
  /\ critical_path' = None
  /\ pc' = "construct"
  /\ UNCHANGED << graph, policy_vars, models_vars, builder_resources >>

------------------------------------------------------------------------------
(* The analysed resource graphs *)

\* GraphBuilder.build: the resources become nodes in their order, then the
\* edges are added in theirs
ResourceGraphOf(resources, edges) ==
  [nodes    |-> [i \in DOMAIN resources |-> resources[i].id],
   edges    |-> [i \in DOMAIN edges |->
                   [u |-> edges[i][1], v |-> edges[i][2], relationship |-> edges[i][3]]],
   resource |-> [n \in { resources[i].id : i \in DOMAIN resources } |->
                   resources[CHOOSE i \in DOMAIN resources : resources[i].id = n]]]

NoAttributes == PyDict(<<>>)

TwoDigits(i) == IF i < 10 THEN "0" \o ToString(i) ELSE ToString(i)

Profile(id) == Resource(id, aws_iam_instance_profile, << "hop", TwoDigits(id) >>, NoAttributes)

Bucket(id, name, acl) ==
  Resource(id, aws_s3_bucket, name, PyDict(<< Item("acl", PyStr(<< acl >>)) >>))

OpenIngress ==
  PyList(<< PyDict(<< Item("cidr_blocks", PyList(<< AnyCidr >>)) >>) >>)

\* (a) Small graphs: a profile, a vector store and buckets (private and
\* public-read in turn), joined by at most PipeEdges identity or logging edges
SmallResource(id) ==
  IF id = 1 THEN Profile(1)
  ELSE IF id = 2 THEN Resource(2, aws_opensearch_domain, << "kb" >>, NoAttributes)
  ELSE Bucket(id, << "data", TwoDigits(id) >>,
              IF id % 2 = 1 THEN "private" ELSE "public-read")

SmallRelationships == { "linked_role", "logs_to" }

SmallPairSeq ==
  SelectSeq(PairSeq(PipeNodes), LAMBDA e : e[1] # e[2] /\ e[1] # 0 /\ e[2] # 0)

SmallResourceGraph(S, relationship) ==
  LET pairs == SelectSeq(SmallPairSeq, LAMBDA e : e \in S)
  IN ResourceGraphOf([i \in 1..PipeNodes |-> SmallResource(i)],
                     [i \in DOMAIN pairs |->
                        << pairs[i][1], pairs[i][2], relationship[pairs[i]] >>])

\* (b) One chain of n attack edges: Internet -> instance -> profiles -> bucket
ChainResourceGraph(n) ==
  LET instance == n - 1
      bucket   == n
      group    == n + 1
      hop(i)   == IF i = 0 THEN instance ELSE IF i = n - 1 THEN bucket ELSE i
  IN ResourceGraphOf(
       [i \in 1..(n + 1) |->
          IF i = instance THEN Resource(i, aws_instance, << "web" >>, NoAttributes)
          ELSE IF i = bucket THEN Bucket(i, << "data" >>, "private")
          ELSE IF i = group
          THEN Resource(i, aws_security_group, << "web" >>,
                        PyDict(<< Item("ingress", OpenIngress) >>))
          ELSE Profile(i)],
       [i \in 1..n |->
          IF i = 1 THEN << instance, group, "protected_by" >>
          ELSE << hop(i - 2), hop(i - 1),
                  IF i = 2 THEN "assumes_role" ELSE "linked_role" >>])

\* (c) The identity scenario: an instance behind a security group and in a
\* subnet, its profile and role, two policies of the role, an agent that uses
\* the role, a logging configuration that logs to the bucket
ScenarioPolicies ==
  { PyNone,
    Document(PyList(<< StatementOf(Allow, Star, Star) >>)),
    Document(PyList(<< Statement(PyList(<< PyStr(<< "s3", ":", "Get", "*" >>) >>),
                                 PyStr(<< "arn:aws:s3:::", "data", "/", "*" >>)) >>)),
    Document(PyList(<< Statement(PyStr(<< "bedrock", ":", "Invoke", "Model" >>), Star) >>)),
    PyStr(<< "{\"Statement\": {\"Action\": \"s3:*\", \"Resource\": \"*\"}}" >>),
    Heredoc(<< "<<", "EOF" >>, "{\"Statement\": {\"Action\": \"s3:*\", \"Resource\": \"*\"}}"),
    PyStr(<< "[1]" >>) }

Policy(id, name, payload) ==
  Resource(id, aws_iam_policy, name,
           IF payload = PyNone THEN NoAttributes
           ELSE PyDict(<< Item("policy", payload) >>))

ScenarioGraph(first, second, acl, ingress, public_ip) ==
  ResourceGraphOf(
    << Resource(1, aws_bedrock_agent, << "assistant" >>, NoAttributes),
       Resource(2, aws_bedrock_model_invocation_logging_configuration, << "main" >>,
                NoAttributes),
       Resource(3, aws_iam_instance_profile, << "app" >>, NoAttributes),
       Policy(4, << "first" >>, first),
       Policy(5, << "second" >>, second),
       Resource(6, aws_iam_role, << "app" >>, NoAttributes),
       Resource(7, aws_instance, << "web" >>, NoAttributes),
       Bucket(8, << "data" >>, acl),
       Resource(9, aws_security_group, << "web" >>, PyDict(<< Item("ingress", ingress) >>)),
       Resource(10, aws_subnet, << "main" >>,
                PyDict(<< Item("map_public_ip_on_launch", public_ip) >>)) >>,
    << << 1, 6, "uses_identity" >>, << 2, 8, "logs_to" >>, << 3, 6, "linked_role" >>,
       << 6, 4, "has_policy" >>, << 6, 5, "has_policy" >>, << 7, 9, "protected_by" >>,
       << 7, 3, "assumes_role" >>, << 7, 10, "located_in" >> >>)

\* (d) One resource and no edge, or nothing at all
SingleResources ==
  { Bucket(1, << "site" >>, acl) : acl \in { "private", "public-read", "public-read-write" } }
  \cup { Resource(1, aws_s3_bucket, << "site" >>,
                  PyDict(<< Item("acl", PyList(<< PyStr(<< "public-read" >>) >>)) >>)),
         Resource(1, aws_s3_bucket, << "site" >>, NoAttributes),
         Resource(1, aws_opensearch_domain, << "kb" >>, NoAttributes),
         Resource(1, aws_instance, << "web" >>, NoAttributes),
         Resource(1, aws_iam_role, << "app" >>, NoAttributes) }

SingleResourceGraph(res) == ResourceGraphOf(<< res >>, <<>>)

\* (e) The instance-to-bucket scenario and nothing else: an instance behind a
\* security group, its profile, the role of the profile, one policy of the
\* role, a private bucket
WildcardS3 == PyStr(<< "s3", ":", "*" >>)

S3Policies ==
  { Document(PyList(<< StatementOf(Allow, WildcardS3, Star) >>)),
    Document(PyList(<< StatementOf(Allow, PyList(<< WildcardS3 >>), PyList(<< Star >>)) >>)),
    Document(StatementOf(Allow, WildcardS3, Star)),
    Document(PyList(<< StatementOf(PyStr(<< "Deny" >>), WildcardS3, Star) >>)),
    PyStr(<< "{\"Statement\": {\"Action\": \"s3:*\", \"Resource\": \"*\"}}" >>) }

InstanceToBucket(payload, ingress) ==
  ResourceGraphOf(
    << Resource(1, aws_iam_instance_profile, << "profile" >>, NoAttributes),
       Policy(2, << "s3" >>, payload),
       Resource(3, aws_iam_role, << "r" >>, NoAttributes),
       Resource(4, aws_instance, << "web" >>, NoAttributes),
       Bucket(5, << "b" >>, "private"),
       Resource(6, aws_security_group, << "web" >>, PyDict(<< Item("ingress", ingress) >>)) >>,
    << << 4, 6, "protected_by" >>, << 4, 1, "assumes_role" >>,
       << 1, 3, "linked_role" >>, << 3, 2, "has_policy" >> >>)

\* (f) An edge to or from a node id that carries no resource: add_edge made
\* the node, after the nodes of the resources
DanglingRelationships == { "assumes_role", "uses_identity", "linked_role", "logs_to", "has_policy" }

DanglingGraph(relationship, outward) ==
  LET RG == ResourceGraphOf(
              << Resource(1, aws_iam_role, << "app" >>, NoAttributes),
                 Resource(2, aws_opensearch_domain, << "kb" >>, NoAttributes) >>, <<>>)
  IN [RG EXCEPT !.nodes = Append(@, 3),
                !.edges = << IF outward
                             THEN [u |-> 2, v |-> 3, relationship |-> relationship]
                             ELSE [u |-> 3, v |-> 2, relationship |-> relationship] >>]

\* (g) A role with one policy and one tagged edge to a bucket
RoleRelationships == { "assumes_role", "uses_identity", "linked_role", "logs_to" }

RoleGraph(payload, relationship) ==
  ResourceGraphOf(
    << Policy(1, << "s3" >>, payload),
       Resource(2, aws_iam_role, << "r" >>, NoAttributes),
       Bucket(3, << "b" >>, "private") >>,
    << << 2, 1, "has_policy" >>, << 2, 3, relationship >> >>)

EngineInit(RG) ==
  /\ pc = "construct"
  /\ graph = RG
  /\ heap = <<>>
  /\ original_graph = 0
  /\ targets = <<>>
  /\ current_graph = 0
  /\ remediations = <<>>
  /\ entry_graph = None
  /\ critical_path = None
  /\ first_run = None
  /\ perm_policies = <<>>
  /\ perm_target = None
  /\ capability = None
  /\ match_actions = <<>>
  /\ match_targets = <<>>
  /\ match_result = None
  /\ rules \in InitialRuleLists
  /\ test_resource = None
  /\ test_result = None
  /\ builder_resources = <<>>

Init ==
  \/ \E S \in { T \in SUBSET Range(SmallPairSeq) : Cardinality(T) <= PipeEdges } :
     \E relationship \in [S -> SmallRelationships] :
       EngineInit(SmallResourceGraph(S, relationship))
  \/ \E n \in 2..MaxChain : EngineInit(ChainResourceGraph(n))
  \/ \E first \in ScenarioPolicies, second \in ScenarioPolicies,
        acl \in { "private", "public-read" },
        ingress \in { OpenIngress, PyList(<<>>) },
        public_ip \in { PyBool(TRUE), PyStr(<< "False" >>) } :
       EngineInit(ScenarioGraph(first, second, acl, ingress, public_ip))
  \/ EngineInit(EmptyResourceGraph)
  \/ \E res \in SingleResources : EngineInit(SingleResourceGraph(res))
  \/ \E payload \in S3Policies, ingress \in { OpenIngress, PyList(<<>>) } :
       EngineInit(InstanceToBucket(payload, ingress))
  \/ \E relationship \in DanglingRelationships, outward \in BOOLEAN :
       EngineInit(DanglingGraph(relationship, outward))
  \/ \E payload \in S3Policies, relationship \in RoleRelationships :
       EngineInit(RoleGraph(payload, relationship))

Next ==
  \/ Construct
  \/ FindCriticalPath
  \/ NewFixEngine
  \/ FixCopy
  \/ FixIteration
  \/ FixReturn
  \/ Rerun
  \/ RerunRules

Spec == Init /\ [][Next]_vars

------------------------------------------------------------------------------
(* GraphBuilder.  A resource id is a number; IdText gives the text of the   *)
(* id, type.name for a resource and data.type.name for a data source.       *)

aws_iam_role_policy_attachment ==
  << "aws", "_", "iam", "_", "role", "_", "policy", "_", "attachment" >>

IdText ==
  << aws_bedrock_agent \o << ".", "assistant" >>,
     aws_bedrock_model_invocation_logging_configuration \o << ".", "main" >>,
     aws_iam_instance_profile \o << ".", "app" >>,
     aws_iam_policy \o << ".", "s3" >>,
     aws_iam_role \o << ".", "app" >>,
     aws_iam_role_policy_attachment \o << ".", "app" >>,
     aws_instance \o << ".", "web" >>,
     aws_s3_bucket \o << ".", "data" >>,
     aws_security_group \o << ".", "web" >>,
     aws_subnet \o << ".", "main" >>,
     << "data", "." >> \o aws_subnet \o << ".", "shared" >> >>

\* GraphBuilder.RELATIONSHIP_REGISTRY.get(res.type, [])
RELATIONSHIP_REGISTRY(type) ==
  IF type = aws_instance
  THEN << [attr |-> "vpc_security_group_ids", target_type |-> aws_security_group,
           rel |-> "protected_by", list |-> TRUE],
          [attr |-> "iam_instance_profile", target_type |-> aws_iam_instance_profile,
           rel |-> "assumes_role", list |-> FALSE],
          [attr |-> "subnet_id", target_type |-> aws_subnet,
           rel |-> "located_in", list |-> FALSE] >>
  ELSE IF type = aws_bedrock_agent
  THEN << [attr |-> "agent_resource_role_arn", target_type |-> aws_iam_role,
           rel |-> "uses_identity", list |-> FALSE] >>
  ELSE IF type = aws_iam_instance_profile
  THEN << [attr |-> "role", target_type |-> aws_iam_role,
           rel |-> "linked_role", list |-> FALSE] >>
  ELSE <<>>

\* candidate in self.resource_map: the id with that text, << >> for None
InResourceMap(rs, candidate) ==
  IF \E i \in DOMAIN rs : IdText[rs[i].id] = candidate
  THEN << rs[CHOOSE i \in DOMAIN rs : IdText[rs[i].id] = candidate].id >>
  ELSE <<>>

\* GraphBuilder._resolve_reference
_resolve_reference(rs, ref_string) ==
  IF ~isinstance(ref_string, "str") THEN <<>>
  ELSE LET parts == str_split(str_remove(str_remove(ref_string.s, << "${" >>), << "}" >>), ".")
       IN IF Len(parts) < 2 THEN <<>>
          ELSE IF parts[1] = << "data" >>
          THEN IF Len(parts) >= 3
               THEN InResourceMap(rs, << "data", "." >> \o parts[2] \o << "." >> \o parts[3])
               ELSE <<>>
          ELSE InResourceMap(rs, parts[1] \o << "." >> \o parts[2])

\* the last resource that wrote the key into an index
LastWith(rs, test(_)) ==
  LET found == { i \in DOMAIN rs : test(rs[i]) }
  IN IF found = {} THEN <<>>
     ELSE << rs[CHOOSE i \in found : \A j \in found : j <= i].id >>

\* GraphBuilder._find_resource_by_name: bucket_index, then name_index
_find_resource_by_name(rs, type_name, resource_name) ==
  LET by_bucket == LastWith(rs, LAMBDA r :
                     /\ r.type = type_name
                     /\ Truthy(dict_get(r.attributes, "bucket", PyNone))
                     /\ dict_get(r.attributes, "bucket", PyNone) = PyStr(resource_name))
      by_name   == LastWith(rs, LAMBDA r : r.type = type_name /\ r.name = resource_name)
  IN IF by_bucket # <<>> THEN by_bucket ELSE by_name

\* self.graph.add_edge(u, v, relationship=...): an existing edge keeps its
\* place and takes the new relationship
add_relationship(RG, u, v, relationship) ==
  LET e == [u |-> u, v |-> v, relationship |-> relationship]
  IN IF \E i \in DOMAIN RG.edges : RG.edges[i].u = u /\ RG.edges[i].v = v
     THEN [RG EXCEPT !.edges =
             [i \in DOMAIN @ |-> IF @[i].u = u /\ @[i].v = v THEN e ELSE @[i]]]
     ELSE [RG EXCEPT !.edges = Append(@, e)]

\* _process_rule, the body of the loop for one ref (lines 86-94)
ProcessRef(rs, RG, res, rule, ref) ==
  LET resolved  == _resolve_reference(rs, ref)
      target_id == IF /\ resolved = <<>>
                      /\ rule.target_type = aws_iam_role
                      /\ str_contains(str(ref), << "/" >>)
                   THEN _find_resource_by_name(rs, aws_iam_role,
                                               Last(str_split(str(ref), "/")))
                   ELSE resolved
  IN IF target_id # <<>> THEN add_relationship(RG, res.id, target_id[1], rule.rel) ELSE RG

RECURSIVE ProcessRefs(_, _, _, _, _, _)
ProcessRefs(rs, RG, res, rule, refs, i) ==
  IF i = 0 THEN RG
  ELSE ProcessRef(rs, ProcessRefs(rs, RG, res, rule, refs, i - 1), res, rule, refs[i])

\* GraphBuilder._process_rule
_process_rule(rs, RG, res, rule) ==
  LET raw_val == dict_get(res.attributes, rule.attr, PyNone)
      refs    == IF isinstance(raw_val, "list") /\ rule.list THEN raw_val.l ELSE << raw_val >>
  IN IF ~Truthy(raw_val) THEN RG ELSE ProcessRefs(rs, RG, res, rule, refs, Len(refs))

RECURSIVE ProcessRules(_, _, _, _, _)
ProcessRules(rs, RG, res, registered, i) ==
  IF i = 0 THEN RG
  ELSE _process_rule(rs, ProcessRules(rs, RG, res, registered, i - 1), res, registered[i])

\* lines 68-72: the role and the policy of an attachment
AttachPolicy(rs, RG, res) ==
  LET role   == _resolve_reference(rs, dict_get(res.attributes, "role", PyStr(<<>>)))
      policy == _resolve_reference(rs, dict_get(res.attributes, "policy_arn", PyStr(<<>>)))
  IN IF res.type = aws_iam_role_policy_attachment /\ role # <<>> /\ policy # <<>>
     THEN add_relationship(RG, role[1], policy[1], "has_policy")
     ELSE RG

\* GraphBuilder._process_bedrock_logging: the graph, or the exception of a
\* logging_config whose first item has no get, or of a bucket_name that is
\* no key of a dict
_process_bedrock_logging(rs, RG, res) ==
  LET found      == dict_get(res.attributes, "logging_config", PyList(<<>>))
      log_config == IF isinstance(found, "list") /\ Len(found.l) > 0 THEN found.l[1]
                    ELSE IF ~isinstance(found, "dict") THEN PyDict(<<>>)
                    ELSE found
  IN IF ~isinstance(log_config, "dict") THEN [raised |-> "AttributeError", graph |-> RG]
     ELSE LET s3_found  == dict_get(log_config, "s3_config", PyList(<<>>))
              s3_first  == IF isinstance(s3_found, "list") /\ Len(s3_found.l) > 0
                           THEN s3_found.l[1] ELSE s3_found
              s3_config == IF ~isinstance(s3_first, "dict") THEN PyDict(<<>>) ELSE s3_first
              bucket_name == dict_get(s3_config, "bucket_name", PyStr(<<>>))
          IN IF ~Truthy(bucket_name) THEN [raised |-> "", graph |-> RG]
             ELSE IF bucket_name.t \in { "list", "dict" }
             THEN [raised |-> "TypeError", graph |-> RG]
             ELSE LET bucket_id == IF isinstance(bucket_name, "str")
                                   THEN _find_resource_by_name(rs, aws_s3_bucket, bucket_name.s)
                                   ELSE <<>>
                  IN [raised |-> "",
                      graph  |-> IF bucket_id # <<>>
                                 THEN add_relationship(RG, res.id, bucket_id[1], "logs_to")
                                 ELSE RG]

\* GraphBuilder._connect_related_resources
_connect_related_resources(rs, RG, res) ==
  LET registered == RELATIONSHIP_REGISTRY(res.type)
      G1 == ProcessRules(rs, RG, res, registered, Len(registered))
      G2 == AttachPolicy(rs, G1, res)
  IN IF res.type = aws_bedrock_model_invocation_logging_configuration
     THEN _process_bedrock_logging(rs, G2, res)
     ELSE [raised |-> "", graph |-> G2]

RECURSIVE ConnectAll(_, _, _)
ConnectAll(rs, RG, i) ==
  IF i = 0 THEN [raised |-> "", graph |-> RG]
  ELSE CHOOSE out \in
         { IF before.raised # "" THEN before
           ELSE _connect_related_resources(rs, before.graph, rs[i]) :
             before \in { ConnectAll(rs, RG, i - 1) } } : TRUE

\* GraphBuilder.build: the nodes of the resources, then their relationships
build(rs) == ConnectAll(rs, ResourceGraphOf(rs, <<>>), Len(rs))

\* a reference to an attribute of a resource, with and without interpolation
Reference(id, attribute) == PyStr(<< "${" >> \o IdText[id] \o << ".", attribute, "}" >>)

BareReference(id) == PyStr(IdText[id])

Attributes(key, val) == IF val = PyNone THEN <<>> ELSE << Item(key, val) >>

SubnetIds ==
  { PyNone, Reference(10, "id"), BareReference(10), Reference(11, "id"), Reference(8, "id"),
    Reference(7, "id"), PyStr(<< "subnet-123" >>),
    PyStr(<< "${", "aws", "_", "subnet", ".", "other", ".", "id", "}" >>),
    PyList(<< Reference(10, "id") >>) }

SecurityGroupIds ==
  { PyNone, PyList(<< Reference(9, "id") >>), Reference(9, "id"),
    PyList(<< Reference(9, "id"), Reference(8, "id") >>), PyList(<< PyInt(1) >>) }

InstanceProfiles == { PyNone, Reference(3, "name"), Reference(5, "name") }

AgentRoles ==
  { PyNone, Reference(5, "arn"), PyStr(<< "arn:aws:iam::123:role", "/", "app" >>),
    PyStr(<< "arn:aws:iam::123:role", "/", "other" >>), Reference(4, "arn") }

ProfileRoles == { PyNone, Reference(5, "name"), Reference(3, "name"), PyStr(<< "app" >>) }

LoggingConfigs ==
  { PyDict(<< Item("s3_config", PyDict(<< Item("bucket_name", PyStr(<< "data" >>)) >>)) >>),
    PyList(<< PyDict(<< Item("s3_config",
                 PyList(<< PyDict(<< Item("bucket_name", PyStr(<< "data" >>)) >>) >>)) >>) >>) }

\* the resources the parser hands to GraphBuilder
BuilderResources(subnet_id, group_ids, profile, agent_role, profile_role, logging) ==
  << Resource(1, aws_bedrock_agent, << "assistant" >>,
              PyDict(Attributes("agent_resource_role_arn", agent_role))),
     Resource(2, aws_bedrock_model_invocation_logging_configuration, << "main" >>,
              PyDict(<< Item("logging_config", logging) >>)),
     Resource(3, aws_iam_instance_profile, << "app" >>, PyDict(Attributes("role", profile_role))),
     Resource(4, aws_iam_policy, << "s3" >>, PyDict(<<>>)),
     Resource(5, aws_iam_role, << "app" >>, PyDict(<<>>)),
     Resource(6, aws_iam_role_policy_attachment, << "app" >>,
              PyDict(<< Item("role", Reference(5, "name")),
                        Item("policy_arn", Reference(4, "arn")) >>)),
     Resource(7, aws_instance, << "web" >>,
              PyDict(Attributes("vpc_security_group_ids", group_ids)
                     \o Attributes("iam_instance_profile", profile)
                     \o Attributes("subnet_id", subnet_id))),
     Resource(8, aws_s3_bucket, << "data" >>, PyDict(<<>>)),
     Resource(9, aws_security_group, << "web" >>, PyDict(<<>>)),
     Resource(10, aws_subnet, << "main" >>, PyDict(<<>>)),
     Resource(11, aws_subnet, << "shared" >>, PyDict(<<>>)) >>

\* GraphBuilder(resources)
InitBuild ==
  /\ pc = "build"
  /\ \E subnet_id \in SubnetIds, group_ids \in SecurityGroupIds, profile \in InstanceProfiles,
        agent_role \in AgentRoles, profile_role \in ProfileRoles, logging \in LoggingConfigs :
       builder_resources =
         BuilderResources(subnet_id, group_ids, profile, agent_role, profile_role, logging)
  /\ graph = EmptyResourceGraph
  /\ heap = <<>>
  /\ original_graph = 0
  /\ targets = <<>>
  /\ current_graph = 0
  /\ remediations = <<>>
  /\ entry_graph = None
  /\ critical_path = None
  /\ first_run = None
  /\ perm_policies = <<>>
  /\ perm_target = None
  /\ capability = None
  /\ match_actions = <<>>
  /\ match_targets = <<>>
  /\ match_result = None
  /\ rules = <<>>
  /\ test_resource = None
  /\ test_result = None

\* graph = builder.build()
Build ==
  /\ pc = "build"
  /\ \E built \in { build(builder_resources) } :
       IF built.raised # ""
       THEN graph' = graph /\ pc' = "crashed"
       ELSE graph' = built.graph /\ pc' = "built"
  /\ UNCHANGED << heap, original_graph, targets, current_graph, remediations,
                  entry_graph, critical_path, first_run, policy_vars, rules,
                  models_vars, builder_resources >>

NextBuild == Build

SpecBuild == InitBuild /\ [][NextBuild]_vars

------------------------------------------------------------------------------
(* Phase 1 on an instance, its security groups and its subnets *)

OtherCidr == PyStr(<< "10.0.0.0/8" >>)

\* values of cidr_blocks
CidrBlocks ==
  { PyList(<< AnyCidr >>),
    PyList(<< OtherCidr, AnyCidr >>),
    PyList(<< PyList(<< OtherCidr >>), PyList(<< AnyCidr >>) >>),
    PyList(<< PyList(<< PyList(<< AnyCidr >>) >>) >>),
    PyList(<< OtherCidr >>),
    PyList(<<>>),
    AnyCidr }

\* ingress rules: with cidr_blocks, or with none
IngressRules ==
  { PyDict(<< Item("cidr_blocks", c) >>) : c \in CidrBlocks }
  \cup { PyDict(<< Item("from_port", PyInt(22)) >>) }

\* values of ingress: one rule, a list of rules, a list of lists of rules
IngressValues ==
  UNION { { r,
            PyList(<< r >>),
            PyList(<< PyDict(<< Item("cidr_blocks", PyList(<< OtherCidr >>)) >>), r >>),
            PyList(<< PyList(<< r >>) >>) } : r \in IngressRules }

\* values of map_public_ip_on_launch
PublicIpValues ==
  { PyBool(FALSE), PyBool(TRUE), PyStr(<< "false" >>), PyStr(<< "False" >>),
    PyStr(<< "FALSE" >>), PyStr(<< "true" >>), PyInt(0), PyList(<< PyBool(FALSE) >>) }

ExposureEdges ==
  << << 1, 2, "protected_by" >>, << 1, 3, "protected_by" >>,
     << 1, 4, "located_in" >>, << 1, 5, "located_in" >> >>

\* ec2.web, two security groups and two subnets; the second group has no
\* ingress and the second subnet no map_public_ip_on_launch unless given
ExposureGraph(ingress, second_ingress, public_ip, second_public_ip, kept) ==
  ResourceGraphOf(
    << Resource(1, aws_instance, << "web" >>, NoAttributes),
       Resource(2, aws_security_group, << "a" >>, PyDict(<< Item("ingress", ingress) >>)),
       Resource(3, aws_security_group, << "b" >>,
                IF second_ingress = PyNone THEN NoAttributes
                ELSE PyDict(<< Item("ingress", second_ingress) >>)),
       Resource(4, aws_subnet, << "a" >>,
                PyDict(<< Item("map_public_ip_on_launch", public_ip) >>)),
       Resource(5, aws_subnet, << "b" >>,
                IF second_public_ip = PyNone THEN NoAttributes
                ELSE PyDict(<< Item("map_public_ip_on_launch", second_public_ip) >>)) >>,
    SelectSeq(ExposureEdges, LAMBDA e : e \in kept))

InitExposure ==
  \E ingress \in IngressValues, second_ingress \in { PyNone, OpenIngress },
     public_ip \in PublicIpValues, second_public_ip \in { PyNone, PyStr(<< "false" >>) },
     kept \in SUBSET Range(ExposureEdges) :
    EngineInit(ExposureGraph(ingress, second_ingress, public_ip, second_public_ip, kept))

NextExposure == Construct

SpecExposure == InitExposure /\ [][NextExposure]_vars

------------------------------------------------------------------------------
(* Graph notions the properties are stated with, independent of the search  *)
(* order of the engine                                                      *)

\* the nodes reached from the set S along at most k edges
RECURSIVE ReachWithin(_, _, _)
ReachWithin(G, S, k) ==
  IF k = 0 THEN S
  ELSE LET T == S \cup { e[2] : e \in { d \in EdgePairs(G) : d[1] \in S } }
       IN IF T = S THEN S ELSE ReachWithin(G, T, k - 1)

ReachableFrom(G, n) == ReachWithin(G, {n}, Len(G.edges))

\* the simple paths from `from` with at most k edges, as a set
RECURSIVE SimplePathSet(_, _, _)
SimplePathSet(G, from, k) ==
  IF k = 0 THEN { << from >> }
  ELSE LET shorter == SimplePathSet(G, from, k - 1)
       IN shorter \cup
          { Append(p[1], p[2][2]) :
              p \in { q \in shorter \X EdgePairs(G) :
                        /\ Len(q[1]) = k
                        /\ q[2][1] = Last(q[1])
                        /\ ~InSeq(q[2][2], q[1]) } }

\* the simple paths of at most k edges from Internet to a sink
SinkPaths(G, tgts, k) ==
  { p \in SimplePathSet(G, internet_node, k) : Len(p) > 1 /\ Last(p) \in Range(tgts) }

EdgesOfPaths(P) == UNION { Range(PathEdgeSeq(p)) : p \in P }

WithoutEdges(G, E) ==
  [G EXCEPT !.edges = SelectSeq(@, LAMBDA e : << e.u, e.v >> \notin E)]

RemediatedEdges == { << r.edge_source, r.edge_target >> : r \in Range(remediations) }

IsCyclic(G) == \E e \in EdgePairs(G) : e[1] \in ReachableFrom(G, e[2])

------------------------------------------------------------------------------
(* Properties of FixEngine.calculate_fix_order *)

\* C1: once calculate_fix_order has returned, no sink is reachable from
\* Internet in the original attack graph without the remediated edges.
C1_RemediationsDisconnect ==
  pc = "fix_returned" =>
    \A t \in Range(targets) :
      t \notin ReachableFrom(WithoutEdges(entry_graph, RemediatedEdges), internet_node)

\* C2: no set of edges smaller than the returned remediation list removes
\* every enumerated Internet-to-target path of the original attack graph.
C2_MinimumEdgeSet ==
  pc = "fix_returned" =>
    \A S \in { T \in SUBSET EdgesOfPaths(SinkPaths(entry_graph, targets, Cutoff)) :
                Cardinality(T) < Len(remediations) } :
      SinkPaths(WithoutEdges(entry_graph, S), targets, Cutoff) # {}

\* C3: when calculate_fix_order returns, the working graph is the original
\* attack graph minus the remediated edges and holds no simple path of at
\* most 10 edges from Internet to a sink.
C3_SinkClosure ==
  pc = "fix_returned" =>
    /\ heap[current_graph] = WithoutEdges(entry_graph, RemediatedEdges)
    /\ \A t \in Range(targets) :
         t \notin ReachWithin(heap[current_graph], {internet_node}, Cutoff)

C3_Witness ==
  /\ pc = "fix_returned"
  /\ Len(remediations) >= 2
  /\ Len(targets) >= 2

\* C4: every removal of a remediation's edge leaves strictly fewer simple
\* paths (of at most 10 edges) from Internet to the sinks than there were
\* immediately before it.
C4_MonotonicDisconnection ==
  [][ Len(remediations') = Len(remediations) + 1 =>
        Cardinality(SinkPaths(heap'[current_graph'], targets', Cutoff))
          < Cardinality(SinkPaths(heap[current_graph], targets, Cutoff)) ]_vars

C4_Witness ==
  /\ pc = "fix_loop"
  /\ Len(remediations) >= 2
  /\ SinkPaths(heap[current_graph], targets, Cutoff) # {}

\* C5: calculate_fix_order returns on every attack graph, cyclic ones
\* included, and never holds more remediations than the original attack
\* graph has edges on Internet-to-sink paths.
C5_Termination ==
  /\ <>(pc = "fix_returned")
  /\ [](pc # "fix_init" =>
          Len(remediations) <=
            Cardinality(EdgesOfPaths(SinkPaths(entry_graph, targets, Len(entry_graph.nodes)))))

C5_Witness ==
  /\ pc = "fix_returned"
  /\ IsCyclic(entry_graph)
  /\ Len(remediations) >= 1

\* C9: calculate_fix_order leaves the attack graph it was given as it was
\* on entry: same nodes, same edges, same method and risk attributes.
C9_OriginalUnchanged ==
  pc \in {"fix_loop", "fix_returned"} => heap[original_graph] = entry_graph

C9_Witness ==
  /\ pc = "fix_returned"
  /\ Len(remediations) >= 2
  /\ heap[current_graph] # heap[original_graph]

\* the sinks of a resource graph: the targets of its logs_to edges and its
\* storage buckets
SinkSet(RG) ==
  { RG.edges[i].v : i \in { k \in DOMAIN RG.edges : RG.edges[k].relationship = "logs_to" } }
  \cup { n \in DOMAIN RG.resource : RG.resource[n].type = aws_s3_bucket }

\* the least number of edges on a path from Internet to one of the nodes S
\* (only asked when one of them is reachable)
SinkDistance(G, S) ==
  CHOOSE k \in 0..Len(G.edges) :
    /\ ReachWithin(G, { internet_node }, k) \cap S # {}
    /\ \A j \in 0..(k - 1) : ReachWithin(G, { internet_node }, j) \cap S = {}

StepIds(path) == [i \in DOMAIN path.steps |-> path.steps[i].id]

\* C6: whenever some sink is reachable from Internet in the attack graph,
\* find_critical_path returns a path that starts at Internet, ends at a sink,
\* follows attack-graph edges and has the least number of edges of all paths
\* from Internet to any sink, with risk score 20 times its number of nodes and
\* severity Critical; when no sink is reachable, or there is no sink, it
\* returns no path.
C6_CriticalPathShortest ==
  pc = "fix_engine" =>
    LET AG == heap[1]
        reached == SinkSet(graph) \cap ReachableFrom(AG, internet_node)
    IN IF reached = {} THEN critical_path = None
       ELSE /\ critical_path # None
            /\ LET ids == StepIds(critical_path)
               IN /\ ids[1] = internet_node
                  /\ Last(ids) \in SinkSet(graph)
                  /\ \A i \in 1..(Len(ids) - 1) : << ids[i], ids[i + 1] >> \in EdgePairs(AG)
                  /\ Len(ids) - 1 = SinkDistance(AG, reached)
                  /\ critical_path.risk_score = 20 * Len(ids)
                  /\ critical_path.severity = "Critical"

\* a critical path of three edges or more was returned while a longer simple
\* path leads from Internet to a sink
C6_Witness ==
  /\ pc = "fix_engine"
  /\ critical_path # None
  /\ Len(critical_path.steps) >= 4
  /\ \E p \in SimplePathSet(heap[1], internet_node, Len(heap[1].nodes)) :
       Last(p) \in SinkSet(graph) /\ Len(p) > Len(critical_path.steps)

\* every path from Internet to a sink has more than Cutoff edges, and there
\* is such a path
BeyondCutoff(RG, AG) ==
  LET reached == SinkSet(RG) \cap ReachableFrom(AG, internet_node)
  IN reached # {} /\ SinkDistance(AG, reached) > Cutoff

\* C7: when every path from Internet to a sink in the attack graph has more
\* than 10 edges, the bounded enumeration yields no path, the remediation
\* list is empty and find_critical_path reports no critical path.
C7_CutoffRespected ==
  (pc = "fix_returned" /\ graph # EmptyGraph /\ BeyondCutoff(graph, heap[1])) =>
    /\ _find_all_paths(heap[1], targets) = <<>>
    /\ remediations = <<>>
    /\ critical_path = None

\* C8: two resource graphs with the same nodes, resources and tagged edges,
\* inserted in different orders, give attack graphs with the same edges and
\* method/risk attributes, the same critical path and the same remediation
\* sequence.
C8_Determinism ==
  (pc = "fix_returned" /\ first_run # None) =>
    /\ Range(heap[1].edges) = Range(first_run.attack_graph.edges)
    /\ critical_path = first_run.critical_path
    /\ remediations = first_run.remediations

\* C10: _check_permission never raises: for every list of policy payloads and
\* every target resource its outcome is a capability string or no capability.
C10_NeverRaises ==
  pc = "checked" =>
    /\ capability.raised = ""
    /\ capability.value.t \in { "str", "NoneType" }

------------------------------------------------------------------------------
(* Properties of the analysis of particular resource graphs *)

PublicAcls == { "public-read", "public-read-write" }

\* the acl of a resource as the attribute gives it, alone or first in a list
AclIs(res, acl) ==
  dict_get(res.attributes, "acl", PyNone) \in { PyStr(<< acl >>), PyList(<< PyStr(<< acl >>) >>) }

\* the resource graph holds one bucket with a public acl and nothing else
OnePublicBucket(RG) ==
  /\ Len(RG.nodes) = 1
  /\ RG.edges = <<>>
  /\ HasResource(RG, RG.nodes[1])
  /\ RG.resource[RG.nodes[1]].type = aws_s3_bucket
  /\ \E acl \in PublicAcls : AclIs(RG.resource[RG.nodes[1]], acl)

\* C11: for a resource graph that holds one public-read (or public-read-write)
\* bucket and nothing else, the attack graph has exactly one edge, from
\* Internet to the bucket with method Public ACL/Policy; the critical path is
\* [Internet, bucket] with score 40 and severity Critical; and the remediation
\* list has exactly one entry, with the make-bucket-private text and
\* paths_blocked 1.
C11_PublicBucket ==
  OnePublicBucket(graph) =>
    LET bucket == graph.nodes[1]
    IN /\ pc # "crashed"
       /\ pc # "construct" =>
            /\ Len(heap[1].edges) = 1
            /\ heap[1].edges[1].u = internet_node
            /\ heap[1].edges[1].v = bucket
            /\ heap[1].edges[1].method = "Public ACL/Policy"
       /\ pc \notin { "construct", "find_critical_path" } =>
            /\ critical_path # None
            /\ StepIds(critical_path) = << internet_node, bucket >>
            /\ critical_path.risk_score = 40
            /\ critical_path.severity = "Critical"
       /\ pc = "fix_returned" =>
            /\ Len(remediations) = 1
            /\ remediations[1].description =
                 [text  |-> "Make S3 Bucket {target} Private (Block Public Access)",
                  names |-> << bucket >>]
            /\ remediations[1].paths_blocked = 1
            /\ remediations[1].edge_source = internet_node
            /\ remediations[1].edge_target = bucket

\* the analysis of one public-read-write bucket has returned its remediation
C11_Witness ==
  /\ pc = "fix_returned"
  /\ OnePublicBucket(graph)
  /\ AclIs(graph.resource[graph.nodes[1]], "public-read-write")
  /\ Len(remediations) = 1

\* the ways into a resource graph, read off the resources and relationships:
\* a security group whose ingress names 0.0.0.0/0, a subnet that gives no
\* public address, an instance behind such a group and in no such subnet
OpenGroup(res) ==
  str_contains(repr(dict_get(res.attributes, "ingress", PyNone)), AnyCidr.s)

PrivateSubnet(res) ==
  dict_get(res.attributes, "map_public_ip_on_launch", PyNone)
    \in { PyBool(FALSE), PyStr(<< "False" >>), PyStr(<< "false" >>) }

Related(RG, u, relationship) ==
  { e.v : e \in { d \in Range(RG.edges) : d.u = u /\ d.relationship = relationship } }

ExposedInstance(RG, n) ==
  /\ RG.resource[n].type = aws_instance
  /\ \E g \in Related(RG, n, "protected_by") \cap DOMAIN RG.resource :
       OpenGroup(RG.resource[g])
  /\ \A s \in Related(RG, n, "located_in") \cap DOMAIN RG.resource :
       ~PrivateSubnet(RG.resource[s])

PublicBucket(RG, n) ==
  /\ RG.resource[n].type = aws_s3_bucket
  /\ \E acl \in PublicAcls : AclIs(RG.resource[n], acl)

VectorStore(RG, n) ==
  \E i \in DOMAIN RG.resource[n].type : RG.resource[n].type[i] \in { "opensearch", "vector" }

IngressNodes(RG) ==
  { n \in DOMAIN RG.resource :
      ExposedInstance(RG, n) \/ PublicBucket(RG, n) \/ VectorStore(RG, n) }

SameResourceGraph(RG, other) ==
  /\ Range(RG.nodes) = Range(other.nodes)
  /\ Range(RG.edges) = Range(other.edges)
  /\ RG.resource = other.resource

\* the policies of S3Policies that hold an Allow statement
AllowS3Policies ==
  { p \in S3Policies :
      /\ isinstance(p, "dict")
      /\ LET found == dict_get(p, "Statement", PyNone)
         IN \E stmt \in (IF isinstance(found, "list") THEN Range(found.l) ELSE { found }) :
              isinstance(stmt, "dict") /\ dict_get(stmt, "Effect", PyNone) = Allow }

\* ec2.web behind an open security group, its profile, the role r with an
\* Allow s3:* policy, the private bucket b
IsInstanceToBucket(RG) ==
  /\ Len(RG.nodes) = 6
  /\ Len(RG.edges) = 4
  /\ \E payload \in AllowS3Policies :
       SameResourceGraph(RG, InstanceToBucket(payload, OpenIngress))

\* C13: for the instance-to-bucket scenario find_critical_path returns exactly
\* [Internet, ec2.web, profile, r, b], and calculate_fix_order returns with at
\* least one remediation and no enumerated path left.
C13_InstanceToBucket ==
  IsInstanceToBucket(graph) =>
    /\ pc # "crashed"
    /\ pc \notin { "construct", "find_critical_path" } =>
         /\ critical_path # None
         /\ StepIds(critical_path) = << internet_node, 4, 1, 3, 5 >>
    /\ pc = "fix_returned" =>
         /\ remediations # <<>>
         /\ targets = << 5 >>
         /\ SinkPaths(heap[current_graph], targets, Cutoff) = {}
         /\ SinkPaths(heap[original_graph], targets, Cutoff) # {}

\* the analysis of the scenario has returned, its resources given in an order
\* other than that of their ids
C13_Witness ==
  /\ pc = "fix_returned"
  /\ IsInstanceToBucket(graph)
  /\ graph.nodes[1] # 1
  /\ remediations # <<>>

------------------------------------------------------------------------------
(* Properties of the attack graph *)

\* C14: in the attack graph that AttackEngine builds, and in the working copy
\* of the fix simulation after any number of removals, the node Internet
\* exists and no edge enters it.
C14_InternetIsSource ==
  pc \notin { "construct", "crashed" } =>
    \A i \in DOMAIN heap :
      /\ HasNode(heap[i], internet_node)
      /\ Predecessors(heap[i], internet_node) = <<>>

\* the fix simulation has removed an edge from a copy of an attack graph in
\* which Internet has several successors
C14_Witness ==
  /\ pc = "fix_loop"
  /\ Len(remediations) >= 1
  /\ Len(Successors(heap[original_graph], internet_node)) >= 2
  /\ heap[current_graph] # heap[original_graph]

OverlayRelationships == { "assumes_role", "uses_identity", "linked_role", "logs_to" }

\* the policy evaluator returns a capability for v from the policies attached
\* to the role u
Grants(RG, u, v) ==
  /\ u \in DOMAIN RG.resource
  /\ v \in DOMAIN RG.resource
  /\ u # v
  /\ RG.resource[u].type = aws_iam_role
  /\ LET granted == _check_permission(_get_attached_policies(RG, u), RG.resource[v])
     IN granted.raised = "" /\ Truthy(granted.value)

\* C15: every edge (u, v) of the constructed attack graph has a witness: u is
\* Internet and v a publicly exposed instance, a publicly accessible bucket or
\* a vector store; or (u, v) is a resource-graph edge tagged assumes_role,
\* uses_identity, linked_role or logs_to; or u is a role, v another resource
\* and the policy evaluator returns a capability for v from the policies
\* attached to u.
C15_EdgesWitnessed ==
  pc \notin { "construct", "crashed" } =>
    \A e \in EdgePairs(heap[1]) :
      \/ e[1] = internet_node /\ e[2] \in IngressNodes(graph)
      \/ \E d \in Range(graph.edges) :
           d.u = e[1] /\ d.v = e[2] /\ d.relationship \in OverlayRelationships
      \/ Grants(graph, e[1], e[2])

\* an attack graph with an edge of each kind has been built
C15_Witness ==
  /\ pc = "fix_engine"
  /\ \E e \in Range(heap[1].edges) : e.u = internet_node
  /\ \E e \in Range(heap[1].edges) : e.method = "Identity Link"
  /\ \E e \in Range(heap[1].edges) : e.method = "IAM Permission allow"
  /\ \E e \in Range(heap[1].edges) : e.method = "Data Flow"
  /\ \E e \in Range(graph.edges) : e.relationship = "protected_by"

------------------------------------------------------------------------------
(* Properties of the two computations of the sinks *)

\* C16: the targets find_critical_path searches and the target list the
\* front end hands to FixEngine are both exactly the sink set: the targets of
\* the logs_to edges of the resource graph and every aws_s3_bucket.
C16_SameSinkSet ==
  pc \in { "fix_init", "fix_loop", "fix_returned" } =>
    /\ Range(CriticalTargets(graph)) = SinkSet(graph)
    /\ Range(targets) = SinkSet(graph)

\* C17: for one resource graph, two lists of rule results give the same
\* attack graph (edges and attributes), the same critical path and the same
\* remediation sequence.
C17_RulesIgnored ==
  (first_run # None /\ first_run.resource_graph = graph) =>
    /\ pc # "crashed"
    /\ pc # "construct" => heap[1] = first_run.attack_graph
    /\ pc \notin { "construct", "find_critical_path" } =>
         critical_path = first_run.critical_path
    /\ pc = "fix_returned" => remediations = first_run.remediations

\* a second analysis with other, non-empty rule results has returned its
\* remediations
C17_Witness ==
  /\ pc = "fix_returned"
  /\ first_run # None
  /\ first_run.resource_graph = graph
  /\ first_run.rules # rules
  /\ first_run.rules # <<>>
  /\ rules # <<>>
  /\ remediations # <<>>

\* the node ids of a resource graph that carry no resource record
MissingIds(RG) == Range(RG.nodes) \ DOMAIN RG.resource

\* an edge that the overlay reads points at, or leaves, such an id
HasDanglingEdge(RG) ==
  \E d \in Range(RG.edges) :
    /\ d.relationship \in OverlayRelationships
    /\ { d.u, d.v } \cap MissingIds(RG) # {}

\* C18: when an edge tagged assumes_role, uses_identity, linked_role or
\* logs_to points at a node id without resource record, the attack graph has
\* no edge to or from the missing id, and the construction,
\* find_critical_path and calculate_fix_order complete without raising.
C18_MissingSkipped ==
  HasDanglingEdge(graph) =>
    /\ pc # "crashed"
    /\ pc # "construct" =>
         \A e \in EdgePairs(heap[1]) : { e[1], e[2] } \cap MissingIds(graph) = {}

------------------------------------------------------------------------------
(* Properties of models.Resource *)

\* C19: is_ai_service is true exactly for the types aws_sagemaker_endpoint,
\* aws_bedrock_model_invocation_logging_configuration and aws_bedrock_agent,
\* whatever the id, the name and the attributes are.
C19_AiService ==
  pc = "tested" =>
    test_result =
      PyBool(\/ test_resource.type = << "aws", "_", "sagemaker", "_", "endpoint" >>
             \/ test_resource.type = << "aws", "_", "bedrock", "_", "model", "_", "invocation",
                                        "_", "logging", "_", "configuration" >>
             \/ test_resource.type = << "aws", "_", "bedrock", "_", "agent" >>)

\* the property has been read for a type that only begins like an AI type
C19_Witness ==
  /\ pc = "tested"
  /\ test_result = PyBool(FALSE)
  /\ str_startswith(test_resource.type, aws_bedrock_agent)
  /\ test_resource.attributes # NoAttributes

------------------------------------------------------------------------------
(* The greedy choice of calculate_fix_order *)

\* the number of paths of P that traverse the edge d
PathsThrough(P, d) == Cardinality({ p \in P : d \in Range(PathEdgeSeq(p)) })

\* C20: in every iteration of calculate_fix_order the removed edge lies on
\* at least as many of the currently enumerated paths as every other edge,
\* and paths_blocked of the emitted remediation is the number of currently
\* enumerated paths that traverse the removed edge.
C20_GreedyChoice ==
  [][ Len(remediations') = Len(remediations) + 1 =>
        \E P \in { SinkPaths(heap[current_graph], targets, Cutoff) } :
        \E rem \in { remediations'[Len(remediations')] } :
        \E removed \in { << rem.edge_source, rem.edge_target >> } :
          /\ removed \in EdgesOfPaths(P)
          /\ \A d \in EdgesOfPaths(P) : PathsThrough(P, d) <= PathsThrough(P, removed)
          /\ rem.paths_blocked = PathsThrough(P, removed)
          /\ heap'[current_graph] = WithoutEdges(heap[current_graph], { removed }) ]_vars

\* a remediation that blocks two paths or more has been emitted for an attack
\* graph in which another edge lies on fewer paths
C20_Witness ==
  /\ pc = "fix_loop"
  /\ Len(remediations) >= 1
  /\ remediations[1].paths_blocked >= 2
  /\ \E d \in EdgesOfPaths(SinkPaths(entry_graph, targets, Cutoff)) :
       PathsThrough(SinkPaths(entry_graph, targets, Cutoff), d)
         < remediations[1].paths_blocked

------------------------------------------------------------------------------
(* Ties of the greedy choice and of the shortest path *)

\* the order of two (source, target) pairs, ids compared as the strings are
PairLeq(d, e) == d[1] < e[1] \/ (d[1] = e[1] /\ d[2] <= e[2])

\* C21: when several edges tie for the largest participation count and all
\* enumerated paths have the same length, calculate_fix_order removes the
\* tied edge whose (source, target) pair is lexicographically smallest.
C21_LexicographicTie ==
  [][ Len(remediations') = Len(remediations) + 1 =>
        \E P \in { SinkPaths(heap[current_graph], targets, Cutoff) } :
        \E rem \in { remediations'[Len(remediations')] } :
          (\A p \in P, q \in P : Len(p) = Len(q)) =>
            \A d \in EdgesOfPaths(P) :
              PathsThrough(P, d) = rem.paths_blocked =>
                PairLeq(<< rem.edge_source, rem.edge_target >>, d) ]_vars

\* the lexicographic order of two node-id sequences of the same length
RECURSIVE SeqLeq(_, _)
SeqLeq(p, q) ==
  \/ p = <<>>
  \/ p[1] < q[1]
  \/ p[1] = q[1] /\ SeqLeq(Tail(p), Tail(q))

\* C22: when several paths from Internet to a sink have the least number of
\* edges, find_critical_path returns the one whose node-id sequence is
\* lexicographically smallest.
C22_LexicographicPath ==
  (pc = "fix_engine" /\ critical_path # None) =>
    \A p \in SinkPaths(heap[1], CriticalTargets(graph), Len(critical_path.steps) - 1) :
      Len(p) = Len(critical_path.steps) => SeqLeq(StepIds(critical_path), p)

------------------------------------------------------------------------------
(* Properties of Phase 1 *)

\* the value says false, whatever the case of its letters
SaysFalse(v) ==
  v \in { PyBool(FALSE), PyStr(<< "false" >>), PyStr(<< "False" >>), PyStr(<< "FALSE" >>) }

\* cidr_blocks, a sequence or a sequence of sequences, contains 0.0.0.0/0
HoldsAnyCidr(cidrs) ==
  /\ cidrs.t = "list"
  /\ \E c \in Range(cidrs.l) : c = AnyCidr \/ (c.t = "list" /\ AnyCidr \in Range(c.l))

\* an object that is an ingress rule open to 0.0.0.0/0
OpenRule(rule) ==
  /\ rule.t = "dict"
  /\ \E item \in Range(rule.d) : item.key = "cidr_blocks" /\ HoldsAnyCidr(item.val)

\* ingress, one object, a sequence of objects or a sequence of sequences of
\* objects, holds an open rule
HoldsOpenRule(ingress) ==
  \/ OpenRule(ingress)
  \/ /\ ingress.t = "list"
     /\ \E r \in Range(ingress.l) :
          OpenRule(r) \/ (r.t = "list" /\ \E sub \in Range(r.l) : OpenRule(sub))

AttributeOf(res, key) == { item.val : item \in { i \in Range(res.attributes.d) : i.key = key } }

InPrivateSubnet(RG, n) ==
  \E s \in Related(RG, n, "located_in") :
    /\ RG.resource[s].type = aws_subnet
    /\ \E v \in AttributeOf(RG.resource[s], "map_public_ip_on_launch") : SaysFalse(v)

BehindOpenGroup(RG, n) ==
  \E g \in Related(RG, n, "protected_by") :
    /\ RG.resource[g].type = aws_security_group
    /\ \E ingress \in AttributeOf(RG.resource[g], "ingress") : HoldsOpenRule(ingress)

\* C23: Phase 1 adds the edge Internet -> i for an instance i exactly when no
\* located_in successor of i is a subnet whose map_public_ip_on_launch says
\* false and some protected_by successor of i is a security group with an
\* ingress rule whose cidr_blocks contain 0.0.0.0/0 (ingress one object, a
\* sequence or a sequence of sequences; cidr_blocks a sequence or a sequence
\* of sequences); in a private subnet the edge is absent whatever the groups.
C23_InstanceExposure ==
  pc = "find_critical_path" =>
    \A i \in { n \in DOMAIN graph.resource : graph.resource[n].type = aws_instance } :
      /\ HasEdge(heap[1], internet_node, i)
           <=> (~InPrivateSubnet(graph, i) /\ BehindOpenGroup(graph, i))
      /\ HasEdge(heap[1], internet_node, i) =>
           get_edge_data(heap[1], internet_node, i).method = "Network Reachability"

\* the edge was added for an instance in a public subnet whose one open
\* group gives its ingress as a sequence of sequences with nested cidr_blocks
C23_Witness ==
  /\ pc = "find_critical_path"
  /\ HasEdge(heap[1], internet_node, 1)
  /\ Related(graph, 1, "protected_by") = { 2 }
  /\ Related(graph, 1, "located_in") = { 4 }
  /\ graph.resource[1].type = aws_instance
  /\ \E ingress \in AttributeOf(graph.resource[2], "ingress") :
       /\ ingress.t = "list"
       /\ \E r \in Range(ingress.l) :
            /\ r.t = "list"
            /\ \E sub \in Range(r.l) :
                 \E item \in Range(sub.d) :
                   item.key = "cidr_blocks" /\ AnyCidr \notin Range(item.val.l)

------------------------------------------------------------------------------
(* Properties of the policy evaluator *)

\* the statements of a payload given as a document
PayloadStatements(payload) ==
  IF payload.t # "dict" THEN {}
  ELSE UNION { IF item.val.t = "list" THEN Range(item.val.l) ELSE { item.val } :
                 item \in { i \in Range(payload.d) : i.key = "Statement" } }

\* the strings of an Action or Resource field, one string or a sequence
FieldStrings(stmt, key) ==
  UNION { IF item.val.t = "list" THEN Range(item.val.l) ELSE { item.val } :
            item \in { i \in Range(stmt.d) : i.key = key } }

\* an Allow statement with * among its actions and * among its resources
AdminStatement(stmt) ==
  /\ stmt.t = "dict"
  /\ \E item \in Range(stmt.d) : item.key = "Effect" /\ item.val = Allow
  /\ Star \in FieldStrings(stmt, "Action")
  /\ Star \in FieldStrings(stmt, "Resource")

\* C24: if some Allow statement of some payload has * among its actions and
\* * among its resources, the evaluator (when it returns) returns Full Admin
\* Access for every target, wherever the statement stands among the others.
C24_AdminWins ==
  (/\ pc = "checked"
   /\ capability.raised = ""
   /\ \E payload \in Range(perm_policies) :
        \E stmt \in PayloadStatements(payload) : AdminStatement(stmt)) =>
    capability.value = PyStr(<< "Full Admin Access" >>)

\* C25: only a statement whose Effect is "Allow" grants a capability: when
\* every payload is a document none of whose statements has the Effect
\* "Allow" (it is "Deny", another value, or absent), the evaluator returns
\* no capability.
C25_OnlyAllowGrants ==
  (/\ pc = "checked"
   /\ capability.raised = ""
   /\ \A payload \in Range(perm_policies) :
        /\ payload.t = "dict"
        /\ \A stmt \in PayloadStatements(payload) :
             stmt.t = "dict" => Allow \notin FieldStrings(stmt, "Effect")) =>
    capability.value = PyNone

HeredocMarkers == { << "<<", "EOF" >>, << "<<", "-", "EOF" >> }

\* the payload is a heredoc: introducer, newline, document, newline, EOF
IsHeredoc(payload) ==
  /\ payload.t = "str"
  /\ \E marker \in HeredocMarkers :
       /\ Len(payload.s) = Len(marker) + 4
       /\ SubSeq(payload.s, 1, Len(marker)) = marker
       /\ payload.s[Len(marker) + 1] = "\n"
       /\ payload.s[Len(marker) + 2] \in DOMAIN JsonText
       /\ payload.s[Len(marker) + 3] = "\n"
       /\ payload.s[Len(marker) + 4] = "EOF"

\* the document of a heredoc, as a string of its own
Unwrapped(payload) == PyStr(<< payload.s[Len(payload.s) - 2] >>)

\* C26: a payload that is a heredoc (<<EOF or <<-EOF, a JSON document, EOF)
\* gives the same capability as the same JSON document without the wrapper.
C26_HeredocSameAsJson ==
  pc = "checked" =>
    \A i \in DOMAIN perm_policies :
      IsHeredoc(perm_policies[i]) =>
        capability =
          _check_permission([perm_policies EXCEPT ![i] = Unwrapped(@)], perm_target)

\* the pattern A matches the target action T: A is T, or A ends with * and T
\* begins with A less its last symbol
PatternMatches(A, T) ==
  \/ A = T
  \/ /\ Len(A) >= 1
     /\ A[Len(A)] = "*"
     /\ Len(T) >= Len(A) - 1
     /\ SubSeq(T, 1, Len(A) - 1) = SubSeq(A, 1, Len(A) - 1)

\* C27: _check_action_match reports a match exactly when some pattern A of
\* the actions and some target T are equal, or A ends with * and T begins
\* with A with its one trailing * removed.
C27_ActionMatch ==
  pc = "matched" =>
    /\ match_result.raised = ""
    /\ match_result.value =
         PyBool(\E a \in Range(match_actions), t \in Range(match_targets) :
                  PatternMatches(a.s, t.s))

------------------------------------------------------------------------------
(* The account of the paths that the remediations block *)

RECURSIVE SumBlocked(_, _)
SumBlocked(rems, i) ==
  IF i = 0 THEN 0 ELSE SumBlocked(rems, i - 1) + rems[i].paths_blocked

\* C28: each removal leaves as many enumerated paths as there were before it
\* less the paths_blocked of its remediation; so on return the paths_blocked
\* of the list add up to the number of paths enumerated on the original
\* attack graph, and no edge has two remediations.
C28_PathAccount ==
  /\ [][ Len(remediations') = Len(remediations) + 1 =>
           Cardinality(SinkPaths(heap'[current_graph'], targets', Cutoff))
             = Cardinality(SinkPaths(heap[current_graph], targets, Cutoff))
                 - remediations'[Len(remediations')].paths_blocked ]_vars
  /\ [](pc = "fix_returned" =>
          /\ SumBlocked(remediations, Len(remediations))
               = Cardinality(SinkPaths(entry_graph, targets, Cutoff))
          /\ \A i \in DOMAIN remediations, j \in DOMAIN remediations :
               (/\ remediations[i].edge_source = remediations[j].edge_source
                /\ remediations[i].edge_target = remediations[j].edge_target) => i = j)

\* three remediations, one of which blocks two paths or more, have been
\* returned
C28_Witness ==
  /\ pc = "fix_returned"
  /\ Len(remediations) >= 3
  /\ \E i \in DOMAIN remediations : remediations[i].paths_blocked >= 2
  /\ \E i \in DOMAIN remediations : remediations[i].paths_blocked = 1

------------------------------------------------------------------------------
(* The attributes of the attack edges *)

IdentityMethods ==
  [ assumes_role  |-> "IMDS/Credential Access",
    uses_identity |-> "Prompt Injection / Tool Abuse",
    linked_role   |-> "Identity Link" ]

\* the methods of the phases that witness the pair (u, v), in phase order
WitnessMethods(RG, u, v) ==
  LET tags == { d.relationship : d \in { c \in Range(RG.edges) : c.u = u /\ c.v = v } }
  IN (IF u = internet_node /\ v \in DOMAIN RG.resource
      THEN (IF ExposedInstance(RG, v) THEN << "Network Reachability" >> ELSE <<>>)
           \o (IF PublicBucket(RG, v) THEN << "Public ACL/Policy" >> ELSE <<>>)
           \o (IF VectorStore(RG, v) THEN << "Public Endpoint" >> ELSE <<>>)
      ELSE <<>>)
     \o (IF tags \cap DOMAIN IdentityMethods # {}
         THEN << IdentityMethods[CHOOSE t \in tags \cap DOMAIN IdentityMethods : TRUE] >>
         ELSE <<>>)
     \o (IF u # internet_node /\ Grants(RG, u, v) THEN << "IAM Permission allow" >> ELSE <<>>)
     \o (IF "logs_to" \in tags THEN << "Data Flow" >> ELSE <<>>)

\* C29: the attack graph holds at most one edge per ordered pair of nodes,
\* and each edge carries the method of the first phase that witnesses its
\* pair: a later phase that also witnesses the pair does not replace it.
C29_FirstPhaseKept ==
  pc \notin { "construct", "crashed" } =>
    /\ \A i \in DOMAIN heap[1].edges, j \in DOMAIN heap[1].edges :
         (heap[1].edges[i].u = heap[1].edges[j].u /\ heap[1].edges[i].v = heap[1].edges[j].v)
           => i = j
    /\ \A e \in Range(heap[1].edges) :
         \E methods \in { WitnessMethods(graph, e.u, e.v) } :
           methods # <<>> /\ e.method = methods[1]

------------------------------------------------------------------------------
(* Properties of GraphBuilder *)

RegistryTargets ==
  [ protected_by  |-> aws_security_group,
    assumes_role  |-> aws_iam_instance_profile,
    located_in    |-> aws_subnet,
    uses_identity |-> aws_iam_role,
    linked_role   |-> aws_iam_role ]

\* C30: every edge that GraphBuilder adds from a registry rule leads to an
\* existing resource whose type is the target_type of the rule, and never
\* from a resource to itself.
C30_RegistryEdges ==
  pc = "built" =>
    \A e \in Range(graph.edges) :
      e.relationship \in DOMAIN RegistryTargets =>
        /\ \E r \in Range(builder_resources) :
             r.id = e.v /\ r.type = RegistryTargets[e.relationship]
        /\ e.u # e.v

====
